---- MODULE Spec2Model ----
(***************************************************************************)
(* Model of the Zaim advanced-search / bulk-mutation layer:                *)
(*   - the search condition evaluator (search-condition-evaluator.ts),     *)
(*   - the paginated fetch orchestrator (pagination-helper.ts),            *)
(*   - bulkUpdateTool (bulk-update-tool.ts) and bulkDeleteTool             *)
(*     (bulk-delete-tool.ts),                                              *)
(*   - sortRecords, searchAndSort and formatOutput                         *)
(*     (search-condition-evaluator.ts) and advancedSearchTool              *)
(*     (advanced-search-tool.ts).                                          *)
(*                                                                         *)
(* Encoding of JavaScript values:                                          *)
(*   - an object is a TLA+ record; a key that is undefined is a key that   *)
(*     is not in DOMAIN; a key whose value is null is listed in the        *)
(*     object's "nulls" set (and carries no value);                        *)
(*   - a string is a sequence of one-character strings, so that            *)
(*     toLowerCase / includes / startsWith / endsWith are computed;        *)
(*   - a calendar date YYYY-MM-DD is its day index: the lexicographic      *)
(*     order of well-formed YYYY-MM-DD strings is the order of day indices.*)
(***************************************************************************)
EXTENDS Integers, Sequences, FiniteSets, TLC

VARIABLES
  ev,             \* evaluator harness: [record, criteria, done, result]
  tool,           \* "update" | "delete" | "fetch" | "format" | "search" | "none"
  input,          \* the tool's input object
  remote,         \* the remote ledger (sequence of records), read by GET
  tz,             \* the process's local time zone: hours east of UTC
  pc,             \* position of the tool's single thread of control
  fb,             \* fetchByDateRanges frame
  fa,             \* fetchAllRecords frame
  pagination,     \* paginationResult as seen by the tool
  targetRecords,  \* filterRecords(paginationResult.records, criteria)
  idx,            \* position of the APPLY loop in targetRecords
  results,        \* results array of the APPLY loop
  successCount,
  failureCount,
  inflight,       \* remote calls issued and not yet completed
  trace,          \* history of remote calls and delays, in issue order
  thrown,         \* history of the values thrown by remote calls, with the call
  output          \* the tool's return value, <<>> while running

vars == <<ev, tool, input, remote, tz, pc, fb, fa, pagination, targetRecords, idx,
          results, successCount, failureCount, inflight, trace, thrown, output>>

bulkVars == <<tool, input, remote, tz, pc, fb, fa, pagination, targetRecords, idx,
              results, successCount, failureCount, inflight, trace, thrown, output>>

(***************************************************************************)
(* Bounds of the model                                                     *)
(***************************************************************************)
MaxNodes == 4        \* criteria trees of the evaluator harness: node count
MaxExpected == 3     \* expectedCount ranges over 0..MaxExpected
PageSize == 2        \* model-scale pageSize (the tools run with 100)
MaxPages == 3        \* model-scale maxPages (the tools run with 100)
ChunkDays == 2       \* model-scale daysPerChunk (the tools run with 31)
MaxLedger == 4       \* the remote ledgers of the fetch runs: record count
MaxFormat == 3       \* the record lists given to formatOutput: record count

(***************************************************************************)
(* JavaScript helpers                                                      *)
(***************************************************************************)
Min(a, b) == IF a < b THEN a ELSE b

IsNull(obj, key) == "nulls" \in DOMAIN obj /\ key \in obj.nulls

\* obj[key] is neither undefined nor null
HasValue(obj, key) == key \in DOMAIN obj /\ ~IsNull(obj, key)

\* String.prototype.toLowerCase over the model alphabet
LowerChar(ch) == IF ch = "A" THEN "a" ELSE IF ch = "B" THEN "b" ELSE ch

toLowerCase(s) == [i \in 1..Len(s) |-> LowerChar(s[i])]

startsWith(s, t) == Len(t) <= Len(s) /\ SubSeq(s, 1, Len(t)) = t

endsWith(s, t) == Len(t) <= Len(s) /\ SubSeq(s, Len(s) - Len(t) + 1, Len(s)) = t

includes(s, t) == \E i \in 0..(Len(s) - Len(t)) : SubSeq(s, i + 1, i + Len(t)) = t

(***************************************************************************)
(* types/advanced-search.ts: type guards                                   *)
(***************************************************************************)
StringFields == {"place", "name", "comment", "category", "genre", "account"}

NumberFields == {"id", "category_id", "genre_id", "account_id",
                 "from_account_id", "to_account_id", "amount"}

isCompositeCondition(criteria) ==
  /\ "operator" \in DOMAIN criteria
  /\ criteria.operator \in {"AND", "OR"}
  /\ "conditions" \in DOMAIN criteria

isStringCondition(condition) == condition.field \in StringFields

isNumberCondition(condition) == condition.field \in NumberFields

isDateCondition(condition) == condition.field = "date"

isModeCondition(condition) == condition.field = "mode"

(***************************************************************************)
(* utils/search-condition-evaluator.ts                                     *)
(***************************************************************************)
evaluateStringCondition(record, condition) ==
  IF ~HasValue(record, condition.field) THEN FALSE
  ELSE LET cs == "caseSensitive" \in DOMAIN condition /\ condition.caseSensitive
           valueStr == record[condition.field]
           searchValue == IF cs THEN condition.value ELSE toLowerCase(condition.value)
           compareValue == IF cs THEN valueStr ELSE toLowerCase(valueStr)
       IN CASE condition.operator = "equals" -> compareValue = searchValue
            [] condition.operator = "contains" -> includes(compareValue, searchValue)
            [] condition.operator = "startsWith" -> startsWith(compareValue, searchValue)
            [] condition.operator = "endsWith" -> endsWith(compareValue, searchValue)
            [] OTHER -> FALSE

evaluateNumberConditionNoAbsentCheck(record, condition) ==
  LET present == HasValue(record, condition.field)
      hasVal == "value" \in DOMAIN condition
  IN CASE condition.operator = "equals" -> present /\ hasVal /\ record[condition.field] = condition.value
       [] condition.operator = "notEquals" -> ~(present /\ hasVal /\ record[condition.field] = condition.value)
       [] condition.operator = "greaterThan" -> present /\ hasVal /\ record[condition.field] > condition.value
       [] condition.operator = "lessThan" -> present /\ hasVal /\ record[condition.field] < condition.value
       [] condition.operator = "greaterOrEqual" -> present /\ hasVal /\ record[condition.field] >= condition.value
       [] condition.operator = "lessOrEqual" -> present /\ hasVal /\ record[condition.field] <= condition.value
       [] condition.operator = "between" ->
            /\ present /\ "min" \in DOMAIN condition /\ "max" \in DOMAIN condition
            /\ record[condition.field] >= condition.min
            /\ record[condition.field] <= condition.max
       [] OTHER -> FALSE

evaluateNumberCondition(record, condition) ==
  IF ~HasValue(record, condition.field) THEN FALSE
  ELSE LET numValue == record[condition.field]
           hasVal == "value" \in DOMAIN condition
       IN CASE condition.operator = "equals" -> hasVal /\ numValue = condition.value
            [] condition.operator = "notEquals" -> ~(hasVal /\ numValue = condition.value)
            [] condition.operator = "greaterThan" -> hasVal /\ numValue > condition.value
            [] condition.operator = "lessThan" -> hasVal /\ numValue < condition.value
            [] condition.operator = "greaterOrEqual" -> hasVal /\ numValue >= condition.value
            [] condition.operator = "lessOrEqual" -> hasVal /\ numValue <= condition.value
            [] condition.operator = "between" ->
                 IF "min" \notin DOMAIN condition \/ "max" \notin DOMAIN condition
                 THEN FALSE
                 ELSE numValue >= condition.min /\ numValue <= condition.max
            [] OTHER -> FALSE

evaluateDateCondition(record, condition) ==
  IF ~HasValue(record, "date") THEN FALSE
  ELSE LET recordDate == record.date
           hasVal == "value" \in DOMAIN condition
       IN CASE condition.operator = "equals" -> hasVal /\ recordDate = condition.value
            [] condition.operator = "before" -> hasVal /\ recordDate < condition.value
            [] condition.operator = "after" -> hasVal /\ recordDate > condition.value
            [] condition.operator = "onOrBefore" -> hasVal /\ recordDate <= condition.value
            [] condition.operator = "onOrAfter" -> hasVal /\ recordDate >= condition.value
            [] condition.operator = "between" ->
                 IF "startDate" \notin DOMAIN condition \/ "endDate" \notin DOMAIN condition
                 THEN FALSE
                 ELSE recordDate >= condition.startDate /\ recordDate <= condition.endDate
            [] OTHER -> FALSE

evaluateModeCondition(record, condition) ==
  HasValue(record, "mode") /\ record.mode = condition.value

evaluateCondition(record, condition) ==
  IF isStringCondition(condition) THEN evaluateStringCondition(record, condition)
  ELSE IF isNumberCondition(condition) THEN evaluateNumberCondition(record, condition)
  ELSE IF isDateCondition(condition) THEN evaluateDateCondition(record, condition)
  ELSE IF isModeCondition(condition) THEN evaluateModeCondition(record, condition)
  ELSE FALSE

RECURSIVE evaluateCompositeCondition(_, _)
RECURSIVE everyFrom(_, _, _)
RECURSIVE someFrom(_, _, _)

\* the callback of conditions.every / conditions.some
evalChild(record, cond) ==
  IF isCompositeCondition(cond)
  THEN evaluateCompositeCondition(record, cond)
  ELSE evaluateCondition(record, cond)

\* Array.prototype.every from index i: stops at the first false
everyFrom(record, conditions, i) ==
  IF i > Len(conditions) THEN TRUE
  ELSE IF ~evalChild(record, conditions[i]) THEN FALSE
  ELSE everyFrom(record, conditions, i + 1)

\* Array.prototype.some from index i: stops at the first true
someFrom(record, conditions, i) ==
  IF i > Len(conditions) THEN FALSE
  ELSE IF evalChild(record, conditions[i]) THEN TRUE
  ELSE someFrom(record, conditions, i + 1)

evaluateCompositeConditionNoEmptyCase(record, composite) ==
  IF composite.operator = "AND"
  THEN everyFrom(record, composite.conditions, 1)
  ELSE someFrom(record, composite.conditions, 1)

evaluateCompositeCondition(record, composite) ==
  IF Len(composite.conditions) = 0 THEN TRUE
  ELSE IF composite.operator = "AND"
  THEN everyFrom(record, composite.conditions, 1)
  ELSE someFrom(record, composite.conditions, 1)

evaluateCriteria(record, criteria) ==
  IF isCompositeCondition(criteria)
  THEN evaluateCompositeCondition(record, criteria)
  ELSE evaluateCondition(record, criteria)

\* records.filter(record => evaluateCriteria(record, criteria))
RECURSIVE filterRecords(_, _)
filterRecords(records, criteria) ==
  IF records = <<>> THEN <<>>
  ELSE LET rest == filterRecords(Tail(records), criteria)
       IN IF evaluateCriteria(Head(records), criteria)
          THEN <<Head(records)>> \o rest
          ELSE rest

(***************************************************************************)
(* Evaluator harness: the inputs of evaluateCriteria                       *)
(***************************************************************************)
StringOperators == {"equals", "contains", "startsWith", "endsWith"}

NumberOperators == {"equals", "notEquals", "greaterThan", "lessThan",
                    "greaterOrEqual", "lessOrEqual"}

DateOperators == {"equals", "before", "after", "onOrBefore", "onOrAfter"}

Modes == {"payment", "income", "transfer"}

\* every shape of StringConditionSchema over the model strings
StringPreds ==
  {[field |-> f, operator |-> o, value |-> v] :
     f \in StringFields, o \in StringOperators, v \in {<<"a">>, <<"A", "b">>}}
  \cup
  {[field |-> f, operator |-> o, value |-> v, caseSensitive |-> b] :
     f \in StringFields, o \in StringOperators, v \in {<<"a">>, <<"A", "b">>},
     b \in BOOLEAN}

\* every shape of NumberConditionSchema: value, min and max are optional
NumberPreds ==
  {[field |-> f, operator |-> o] : f \in NumberFields, o \in NumberOperators \cup {"between"}}
  \cup
  {[field |-> f, operator |-> o, value |-> v] :
     f \in NumberFields, o \in NumberOperators, v \in 1..2}
  \cup
  {[field |-> f, operator |-> "between", min |-> 1] : f \in NumberFields}
  \cup
  {[field |-> f, operator |-> "between", max |-> 2] : f \in NumberFields}
  \cup
  {[field |-> f, operator |-> "between", min |-> 1, max |-> 2] : f \in NumberFields}

\* every shape of DateConditionSchema: value, startDate and endDate are optional
DatePreds ==
  {[field |-> "date", operator |-> o] : o \in DateOperators \cup {"between"}}
  \cup
  {[field |-> "date", operator |-> o, value |-> 2] : o \in DateOperators}
  \cup
  {[field |-> "date", operator |-> "between", startDate |-> 1],
   [field |-> "date", operator |-> "between", endDate |-> 2],
   [field |-> "date", operator |-> "between", startDate |-> 1, endDate |-> 2]}

ModePreds == {[field |-> "mode", operator |-> "equals", value |-> m] : m \in Modes}

AllPreds == StringPreds \cup NumberPreds \cup DatePreds \cup ModePreds

\* the predicates used as leaves of the generated criteria trees
LeafPreds ==
  {[field |-> "place", operator |-> "contains", value |-> <<"a">>],
   [field |-> "amount", operator |-> "greaterThan", value |-> 1],
   [field |-> "mode", operator |-> "equals", value |-> "payment"]}

RECURSIVE TreesOfSize(_)
RECURSIVE ForestsOfSize(_)

\* the criteria trees with exactly n nodes (predicates and composites)
TreesOfSize(n) ==
  (IF n = 1 THEN LeafPreds ELSE {})
  \cup
  {[operator |-> op, conditions |-> f] : op \in {"AND", "OR"}, f \in ForestsOfSize(n - 1)}

\* the lists of criteria trees with m nodes in total
ForestsOfSize(m) ==
  IF m = 0 THEN {<<>>}
  ELSE UNION {{<<t>> \o f : t \in TreesOfSize(k), f \in ForestsOfSize(m - k)} : k \in 1..m}

CriteriaTrees == UNION {TreesOfSize(n) : n \in 1..MaxNodes}

EvalCriteria == AllPreds \cup CriteriaTrees

\* records as the remote may return them: any field may be missing or null
EvalRecords ==
  {[id |-> 1, mode |-> "payment", date |-> 2, amount |-> 1, category_id |-> 1,
    genre_id |-> 2, account_id |-> 1, place |-> <<"a">>, name |-> <<"A", "b">>,
    comment |-> <<>>, category |-> <<"a">>, genre |-> <<"b">>, account |-> <<"A">>],
   [id |-> 2, mode |-> "income", date |-> 3, amount |-> 2, category_id |-> 2,
    genre_id |-> 1, account_id |-> 2, to_account_id |-> 2, place |-> <<"A", "b">>,
    comment |-> <<"a">>, category |-> <<"b">>, genre |-> <<"a">>, account |-> <<"a", "b">>],
   [id |-> 3, mode |-> "transfer", date |-> 1, amount |-> 3, from_account_id |-> 1,
    to_account_id |-> 2, name |-> <<"a">>, comment |-> <<>>],
   [id |-> 4, mode |-> "payment", date |-> 2, amount |-> 2, from_account_id |-> 2,
    nulls |-> {"place", "name", "category_id"}],
   [id |-> 5, nulls |-> {"mode", "date", "amount", "comment", "account"}],
   [nulls |-> {}]}

EvalIdle == [done |-> TRUE, result |-> FALSE, record |-> [nulls |-> {}],
             criteria |-> [operator |-> "AND", conditions |-> <<>>], armed |-> FALSE]

BulkIdle ==
  /\ tool = "none"
  /\ input = <<>>
  /\ remote = <<>>
  /\ tz = 0
  /\ pc = "idle"
  /\ fb = <<>>
  /\ fa = <<>>
  /\ pagination = <<>>
  /\ targetRecords = <<>>
  /\ idx = 0
  /\ results = <<>>
  /\ successCount = 0
  /\ failureCount = 0
  /\ inflight = {}
  /\ trace = <<>>
  /\ thrown = <<>>
  /\ output = <<>>

EvalInit ==
  /\ ev \in {[done |-> FALSE, result |-> FALSE, record |-> r, criteria |-> c, armed |-> TRUE] :
               r \in EvalRecords, c \in EvalCriteria}
  /\ BulkIdle

\* one call of evaluateCriteria(record, criteria)
Evaluate ==
  /\ ev.armed /\ ~ev.done
  /\ ev' = [ev EXCEPT !.done = TRUE, !.result = evaluateCriteria(ev.record, ev.criteria)]
  /\ UNCHANGED bulkVars

NextEval == Evaluate

SpecEval == EvalInit /\ [][NextEval]_vars

(***************************************************************************)
(* utils/pagination-helper.ts                                              *)
(***************************************************************************)
\* new Date("YYYY-MM-DD"): UTC midnight of the day, as hours since day 0
newDate(day) == day * 24

\* formatDate: the calendar day of the timestamp in LOCAL time
\* (getFullYear / getMonth / getDate)
formatDate(date) == (date + tz) \div 24

\* Date.prototype.setDate(getDate() + n): n local calendar days later
addDays(date, n) == date + n * 24

RECURSIVE splitLoop(_, _, _)
\* the while loop of splitDateRange
splitLoop(currentStart, end, daysPerChunk) ==
  IF currentStart > end THEN <<>>
  ELSE LET chunkEnd == addDays(currentStart, daysPerChunk - 1)
           actualEnd == IF chunkEnd > end THEN end ELSE chunkEnd
       IN <<[start |-> formatDate(currentStart), end |-> formatDate(actualEnd)]>>
          \o splitLoop(addDays(actualEnd, 1), end, daysPerChunk)

splitDateRange(startDate, endDate, daysPerChunk) ==
  LET start == newDate(startDate)
      end == newDate(endDate)
  IN IF start > end THEN <<>> ELSE splitLoop(start, end, daysPerChunk)

RECURSIVE removeDuplicatesFrom(_, _)
\* records.filter with the seen-set carried along
removeDuplicatesFrom(records, seen) ==
  IF records = <<>> THEN <<>>
  ELSE IF Head(records).id \in seen
       THEN removeDuplicatesFrom(Tail(records), seen)
       ELSE <<Head(records)>> \o removeDuplicatesFrom(Tail(records), seen \cup {Head(records).id})

removeDuplicatesKeepAll(records) ==
  SelectSeq(records, LAMBDA r : TRUE)

removeDuplicates(records) == removeDuplicatesFrom(records, {})

\* PaginationOptionsSchema.parse(options): defaults applied
PaginationOptionsParse(options) ==
  [startPage |-> IF "startPage" \in DOMAIN options THEN options.startPage ELSE 1,
   pageSize |-> IF "pageSize" \in DOMAIN options THEN options.pageSize ELSE PageSize,
   maxPages |-> IF "maxPages" \in DOMAIN options THEN options.maxPages ELSE MaxPages,
   delayBetweenRequests |-> IF "delayBetweenRequests" \in DOMAIN options
                            THEN options.delayBetweenRequests ELSE 200]
  @@ (IF "maxRecords" \in DOMAIN options
      THEN [maxRecords |-> options.maxRecords] ELSE <<>>)

\* Array.prototype.slice(0, n)
slice0(seq, n) == SubSeq(seq, 1, Min(n, Len(seq)))

(***************************************************************************)
(* The remote service behind client.get / client.put / client.delete       *)
(***************************************************************************)
RECURSIVE inRange(_, _, _)
inRange(ledger, start, end) ==
  IF ledger = <<>> THEN <<>>
  ELSE (IF Head(ledger).date >= start /\ Head(ledger).date <= end
        THEN <<Head(ledger)>> ELSE <<>>) \o inRange(Tail(ledger), start, end)

\* GET /v2/home/money with start_date, end_date, page and limit
RemotePage(params) ==
  LET all == inRange(remote, params.start_date, params.end_date)
      from == (params.page - 1) * params.limit + 1
      to == Min(params.page * params.limit, Len(all))
  IN SubSeq(all, from, to)

\* a fetcher that resolves with the same full page on every call
fullPage(params) ==
  [j \in 1..params.limit |->
     [id |-> j, mode |-> "payment", date |-> params.start_date, amount |-> 1]]

\* the fetchFn handed to fetchAllRecords: the request's own fetcher when it
\* names one, the GET on the remote otherwise
fetchFn(params) ==
  IF "fetcher" \in DOMAIN input THEN fullPage(params) ELSE RemotePage(params)

\* what a failing remote call throws
Throwables ==
  {[isError |-> TRUE, message |-> "E1"],
   [isError |-> TRUE, message |-> "E2"],
   [isError |-> FALSE]}

fetchErrorMessageGeneric(error) == "Unknown error occurred"

\* fetchAllRecords: error instanceof Error ? error.message : 'Unknown error occurred'
fetchErrorMessage(error) ==
  IF error.isError THEN error.message ELSE "Unknown error occurred"

\* the bulk tools: error instanceof Error ? error.message : (unknown error)
toolErrorMessage(error) ==
  IF error.isError THEN error.message ELSE "unknown error"

(***************************************************************************)
(* tools/advanced/bulk-update-tool.ts: pure helpers                        *)
(***************************************************************************)
RECURSIVE findFieldInCriteria(_, _)
RECURSIVE findFieldInList(_, _, _)

\* the for loop of findFieldInCriteria over criteria.conditions
findFieldInList(conditions, fieldName, i) ==
  IF i > Len(conditions) THEN FALSE
  ELSE IF findFieldInCriteria(conditions[i], fieldName) THEN TRUE
  ELSE findFieldInList(conditions, fieldName, i + 1)

\* TRUE when the source returns a condition, FALSE when it returns undefined
findFieldInCriteria(criteria, fieldName) ==
  IF isCompositeCondition(criteria)
  THEN findFieldInList(criteria.conditions, fieldName, 1)
  ELSE criteria.field = fieldName

\* the order in which validateUpdateFieldsInCriteria visits the update fields
UpdateFieldOrder ==
  <<"category_id", "genre_id", "amount", "account_id", "from_account_id",
    "to_account_id", "date", "place", "name", "comment">>

validateUpdateFieldsInCriteriaNumericOnly(criteria, updates) ==
  SelectSeq(SubSeq(UpdateFieldOrder, 1, 6),
            LAMBDA field : field \in DOMAIN updates /\ ~findFieldInCriteria(criteria, field))

\* the list of error messages, each represented by the field it names
validateUpdateFieldsInCriteria(criteria, updates) ==
  SelectSeq(UpdateFieldOrder,
            LAMBDA field : field \in DOMAIN updates /\ ~findFieldInCriteria(criteria, field))

RECURSIVE splitJoin(_, _, _)
\* current.split(searchPattern).join(replaceWith)
splitJoin(current, searchPattern, replaceWith) ==
  IF searchPattern = <<>>
  THEN IF Len(current) <= 1 THEN current
       ELSE <<Head(current)>> \o replaceWith \o splitJoin(Tail(current), searchPattern, replaceWith)
  ELSE IF Len(current) < Len(searchPattern) THEN current
  ELSE IF startsWith(current, searchPattern)
       THEN replaceWith \o splitJoin(SubSeq(current, Len(searchPattern) + 1, Len(current)),
                                     searchPattern, replaceWith)
       ELSE <<Head(current)>> \o splitJoin(Tail(current), searchPattern, replaceWith)

\* currentValue ?? ''
orEmpty(obj, key) == IF HasValue(obj, key) THEN obj[key] ELSE <<>>

applyStringUpdate(record, field, update) ==
  IF update.mode = "replace"
  THEN orEmpty(update, "newValue")
  ELSE IF update.mode = "partial" /\ "searchPattern" \in DOMAIN update
  THEN splitJoin(orEmpty(record, field), update.searchPattern, orEmpty(update, "replaceWith"))
  ELSE orEmpty(record, field)

\* obj with obj[key] = value when cond holds, the empty object otherwise
Entry(cond, key, value) == IF cond THEN key :> value ELSE <<>>

\* before[key] = record[from]; a value that is undefined leaves no key in
\* the serialized result
BeforeEntry(cond, key, record, from) ==
  IF cond /\ HasValue(record, from) THEN key :> record[from] ELSE <<>>

\* the three objects built by calculateUpdateBody; a later assignment to the
\* same key of body overrides an earlier one
calculateUpdateBody(record, updates) ==
  LET has(f) == f \in DOMAIN updates
      str(f) == applyStringUpdate(record, f, updates[f])
      literal == {"category_id", "genre_id", "amount", "from_account_id",
                  "to_account_id", "date"}
      lit(f) == Entry(has(f), f, IF has(f) THEN updates[f] ELSE 0)
      strE(f) == Entry(has(f), f, IF has(f) THEN str(f) ELSE <<>>)
      acct == IF has("account_id") THEN updates.account_id ELSE 0
  IN [body |->
        strE("comment") @@ strE("name") @@ strE("place") @@ lit("date")
        @@ lit("to_account_id") @@ lit("from_account_id")
        @@ Entry(has("account_id") /\ HasValue(record, "mode") /\ record.mode = "payment",
                 "from_account_id", acct)
        @@ Entry(has("account_id") /\ HasValue(record, "mode") /\ record.mode = "income",
                 "to_account_id", acct)
        @@ lit("amount") @@ lit("genre_id") @@ lit("category_id")
        @@ ("mapping" :> 1),
      before |->
        BeforeEntry(has("category_id"), "category_id", record, "category_id")
        @@ BeforeEntry(has("genre_id"), "genre_id", record, "genre_id")
        @@ BeforeEntry(has("amount"), "amount", record, "amount")
        @@ BeforeEntry(has("account_id"), "account_id", record,
                       IF HasValue(record, "from_account_id")
                       THEN "from_account_id" ELSE "to_account_id")
        @@ BeforeEntry(has("from_account_id"), "from_account_id", record, "from_account_id")
        @@ BeforeEntry(has("to_account_id"), "to_account_id", record, "to_account_id")
        @@ BeforeEntry(has("date"), "date", record, "date")
        @@ BeforeEntry(has("place"), "place", record, "place")
        @@ BeforeEntry(has("name"), "name", record, "name")
        @@ BeforeEntry(has("comment"), "comment", record, "comment"),
      after |->
        lit("category_id") @@ lit("genre_id") @@ lit("amount") @@ lit("account_id")
        @@ lit("from_account_id") @@ lit("to_account_id") @@ lit("date")
        @@ strE("place") @@ strE("name") @@ strE("comment")]

(***************************************************************************)
(* tools/advanced/bulk-delete-tool.ts: pure helpers                        *)
(***************************************************************************)
isEmptyCriteriaShallow(criteria) ==
  IF isCompositeCondition(criteria)
  THEN Len(criteria.conditions) = 0
  ELSE "field" \notin DOMAIN criteria \/ "operator" \notin DOMAIN criteria

RECURSIVE isEmptyCriteria(_)
isEmptyCriteria(criteria) ==
  IF isCompositeCondition(criteria)
  THEN IF Len(criteria.conditions) = 0 THEN TRUE
       ELSE \A i \in 1..Len(criteria.conditions) : isEmptyCriteria(criteria.conditions[i])
  ELSE "field" \notin DOMAIN criteria \/ "operator" \notin DOMAIN criteria

\* the summary object of a delete result: undefined members leave no key
deleteSummary(record) ==
  BeforeEntry(TRUE, "date", record, "date") @@ BeforeEntry(TRUE, "amount", record, "amount")
  @@ BeforeEntry(TRUE, "place", record, "place") @@ BeforeEntry(TRUE, "name", record, "name")

(***************************************************************************)
(* The requests and ledgers the bulk tools are run on                      *)
(***************************************************************************)
And(conds) == [operator |-> "AND", conditions |-> conds]

Or(conds) == [operator |-> "OR", conditions |-> conds]

PPlace == [field |-> "place", operator |-> "contains", value |-> <<"a">>]

PAmount == [field |-> "amount", operator |-> "equals", value |-> 1]

PCategory == [field |-> "category_id", operator |-> "equals", value |-> 1]

PDate == [field |-> "date", operator |-> "onOrAfter", value |-> 2]

PAccount == [field |-> "account_id", operator |-> "notEquals", value |-> 9]

PGenre == [field |-> "genre_id", operator |-> "greaterThan", value |-> 0]

BulkCriteria ==
  {PPlace, PAmount, PGenre,
   And(<<>>), Or(<<>>), And(<<Or(<<>>), And(<<>>)>>), Or(<<And(<<Or(<<>>)>>)>>),
   And(<<PPlace, PAmount>>), Or(<<PCategory, PDate>>),
   And(<<Or(<<PPlace, PDate>>), And(<<PCategory, PAmount>>)>>),
   Or(<<Or(<<>>), PAmount>>),
   And(<<PAccount, PDate>>)}

BulkUpdates ==
  {<<>>,
   [amount |-> 2],
   [place |-> [mode |-> "replace", newValue |-> <<"b">>]],
   [category_id |-> 5,
    place |-> [mode |-> "partial", searchPattern |-> <<"a">>, replaceWith |-> <<"b", "b">>]],
   [account_id |-> 7, date |-> 2]}

DateRanges == {[start |-> 1, end |-> 3], [start |-> 1, end |-> 1], [start |-> 3, end |-> 2]}

M1 == [id |-> 1, mode |-> "payment", date |-> 1, amount |-> 1, category_id |-> 1,
       account_id |-> 1, from_account_id |-> 1, place |-> <<"a">>, name |-> <<"b">>]

M2 == [id |-> 2, mode |-> "income", date |-> 1, amount |-> 2, category_id |-> 1,
       account_id |-> 2, to_account_id |-> 2, place |-> <<"a", "b">>]

M3 == [id |-> 3, mode |-> "transfer", date |-> 2, amount |-> 1, category_id |-> 2,
       account_id |-> 1, from_account_id |-> 1, to_account_id |-> 2]

\* a payment as ZaimMoneySchema types it: from_account_id and to_account_id
\* are optional members, account_id is not
M4 == [id |-> 4, mode |-> "payment", date |-> 3, amount |-> 1, category_id |-> 1,
       account_id |-> 2, place |-> <<"b", "a">>]

Ledgers == {<<>>, <<M2, M4>>, <<M1, M2, M3, M4>>}

TimeZones == {9, -5}

BulkInputs(t) ==
  IF t = "update"
  THEN {[criteria |-> c, dateRange |-> d, updates |-> u, expectedCount |-> n, dryRun |-> b] :
          c \in BulkCriteria, d \in DateRanges, u \in BulkUpdates,
          n \in 0..MaxExpected, b \in BOOLEAN}
  ELSE {[criteria |-> c, dateRange |-> d, expectedCount |-> n, dryRun |-> b] :
          c \in BulkCriteria, d \in DateRanges, n \in 0..MaxExpected, b \in BOOLEAN}

Init ==
  /\ ev = EvalIdle
  /\ tool \in {"update", "delete"}
  /\ input \in BulkInputs(tool)
  /\ remote \in Ledgers
  /\ tz \in TimeZones
  /\ pc = "start"
  /\ fb = <<>>
  /\ fa = <<>>
  /\ pagination = <<>>
  /\ targetRecords = <<>>
  /\ idx = 0
  /\ results = <<>>
  /\ successCount = 0
  /\ failureCount = 0
  /\ inflight = {}
  /\ trace = <<>>
  /\ thrown = <<>>
  /\ output = <<>>

(***************************************************************************)
(* fetchByDateRanges and fetchAllRecords, as run by the tools              *)
(***************************************************************************)
\* the options object the bulk tools pass to fetchByDateRanges
ToolOptions == [delayBetweenRequests |-> 200]

FreshFetchAll(options) ==
  [allRecords |-> <<>>, currentPage |-> PaginationOptionsParse(options).startPage,
   hasMore |-> TRUE]

\* fetchByDateRanges after the loop over ranges: truncate, deduplicate, return
FetchByReturn(allRecords, totalPagesRetrieved, hasError, errorMessage) ==
  LET options == fb.options
      over == "maxRecords" \in DOMAIN options /\ Len(allRecords) > options.maxRecords
      finalRecords == IF over THEN slice0(allRecords, options.maxRecords) ELSE allRecords
      uniqueRecords == removeDuplicates(finalRecords)
  IN /\ pagination' = [records |-> uniqueRecords,
                       pagesRetrieved |-> totalPagesRetrieved,
                       totalRecords |-> Len(uniqueRecords),
                       hasMore |-> over,
                       hasError |-> hasError]
                      @@ (IF hasError THEN [errorMessage |-> errorMessage] ELSE <<>>)
     /\ pc' = "fetched"

\* fetchByDateRanges resuming after `await fetchAllRecords(...)` returned result
FetchAllReturn(result) ==
  LET options == fb.options
      allRecords == fb.allRecords \o result.records
      totalPagesRetrieved == fb.totalPagesRetrieved + result.pagesRetrieved
  IN IF result.hasError
     THEN /\ FetchByReturn(allRecords, totalPagesRetrieved, TRUE, result.errorMessage)
          /\ fb' = [fb EXCEPT !.allRecords = allRecords,
                              !.totalPagesRetrieved = totalPagesRetrieved,
                              !.result = result]
          /\ UNCHANGED fa
     ELSE IF \/ ("maxRecords" \in DOMAIN options /\ Len(allRecords) >= options.maxRecords)
             \/ fb.i = Len(fb.ranges)
     THEN /\ FetchByReturn(allRecords, totalPagesRetrieved, FALSE, "")
          /\ fb' = [fb EXCEPT !.allRecords = allRecords,
                              !.totalPagesRetrieved = totalPagesRetrieved,
                              !.result = result]
          /\ UNCHANGED fa
     ELSE /\ fb' = [fb EXCEPT !.allRecords = allRecords,
                              !.totalPagesRetrieved = totalPagesRetrieved,
                              !.result = result,
                              !.i = fb.i + 1]
          /\ fa' = FreshFetchAll(options)
          /\ pc' = "fetch_loop"
          /\ UNCHANGED pagination

\* the normal return of fetchAllRecords after its while loop
FetchAllResult(allRecords, currentPage, hasMore) ==
  LET opts == PaginationOptionsParse(fb.options)
      over == "maxRecords" \in DOMAIN opts /\ Len(allRecords) > opts.maxRecords
      finalRecords == IF over THEN slice0(allRecords, opts.maxRecords) ELSE allRecords
  IN [records |-> finalRecords,
      pagesRetrieved |-> currentPage - opts.startPage + 1,
      totalRecords |-> Len(finalRecords),
      hasMore |-> hasMore \/ over,
      hasError |-> FALSE]

\* the tool calls fetchByDateRanges(fetchMoneyRecords, start, end, {}, options)
BeginFetch(options) ==
  LET ranges == splitDateRange(input.dateRange.start, input.dateRange.end, ChunkDays)
  IN IF Len(ranges) = 0
     THEN /\ pagination' = [records |-> <<>>, pagesRetrieved |-> 0, totalRecords |-> 0,
                            hasMore |-> FALSE, hasError |-> FALSE]
          /\ pc' = "fetched"
          /\ UNCHANGED <<fb, fa>>
     ELSE /\ fb' = [options |-> options, ranges |-> ranges, i |-> 1,
                    allRecords |-> <<>>, totalPagesRetrieved |-> 0, result |-> <<>>]
          /\ fa' = FreshFetchAll(options)
          /\ pc' = "fetch_loop"
          /\ UNCHANGED pagination

ErrorStats == [targetCount |-> 0, successCount |-> 0, failureCount |-> 0,
               dryRun |-> input.dryRun]

\* entry of bulkUpdateTool / bulkDeleteTool: the validation step
Validate ==
  /\ pc = "start"
  /\ IF tool = "update"
     THEN LET validationErrors == validateUpdateFieldsInCriteria(input.criteria, input.updates)
          IN IF Len(validationErrors) > 0
             THEN /\ output' = [success |-> FALSE,
                                message |-> [kind |-> "consistency", fields |-> validationErrors],
                                results |-> <<>>, stats |-> ErrorStats]
                  /\ pc' = "done"
                  /\ UNCHANGED <<fb, fa, pagination>>
             ELSE BeginFetch(ToolOptions) /\ UNCHANGED output
     ELSE IF isEmptyCriteria(input.criteria)
          THEN /\ output' = [success |-> FALSE, message |-> [kind |-> "safety"],
                             results |-> <<>>, stats |-> ErrorStats]
               /\ pc' = "done"
               /\ UNCHANGED <<fb, fa, pagination>>
          ELSE BeginFetch(ToolOptions) /\ UNCHANGED output
  /\ UNCHANGED <<ev, tool, input, remote, tz, targetRecords, idx, results,
                 successCount, failureCount, inflight, trace, thrown>>

maxPagesExceededLate(currentPage, opts) ==
  currentPage - opts.startPage + 1 > opts.maxPages + 1

\* `if (currentPage - opts.startPage + 1 > opts.maxPages)`
maxPagesExceeded(currentPage, opts) ==
  currentPage - opts.startPage + 1 > opts.maxPages

\* head of the while loop of fetchAllRecords: limit checks, then the page request
FetchRequest ==
  /\ pc = "fetch_loop"
  /\ LET opts == PaginationOptionsParse(fb.options)
         range == fb.ranges[fb.i]
         call == [method |-> "GET", start_date |-> range.start, end_date |-> range.end,
                  page |-> fa.currentPage, limit |-> opts.pageSize]
     IN IF \/ maxPagesExceeded(fa.currentPage, opts)
           \/ ("maxRecords" \in DOMAIN opts /\ Len(fa.allRecords) >= opts.maxRecords)
        THEN /\ FetchAllReturn(FetchAllResult(fa.allRecords, fa.currentPage, TRUE))
             /\ UNCHANGED <<inflight, trace>>
        ELSE /\ inflight' = inflight \cup {call}
             /\ trace' = Append(trace, call)
             /\ pc' = "fetch_wait"
             /\ UNCHANGED <<fb, fa, pagination>>
  /\ UNCHANGED <<ev, tool, input, remote, tz, targetRecords, idx, results,
                 successCount, failureCount, thrown, output>>

nextPageSkipping(currentPage) == currentPage + 2

\* `currentPage++` after a full page
nextPage(currentPage) == currentPage + 1

\* `await fetchFn(params)` resolves with a page
FetchResponse ==
  /\ pc = "fetch_wait"
  /\ \E call \in inflight :
       LET opts == PaginationOptionsParse(fb.options)
           records == fetchFn(call)
           allRecords == fa.allRecords \o records
       IN /\ inflight' = inflight \ {call}
          /\ IF Len(records) < opts.pageSize
             THEN FetchAllReturn(FetchAllResult(allRecords, fa.currentPage, FALSE))
             ELSE /\ fa' = [fa EXCEPT !.allRecords = allRecords,
                                      !.currentPage = nextPage(fa.currentPage)]
                  /\ pc' = IF opts.delayBetweenRequests > 0 THEN "fetch_delay" ELSE "fetch_loop"
                  /\ UNCHANGED <<fb, pagination>>
  /\ UNCHANGED <<ev, tool, input, remote, tz, targetRecords, idx, results,
                 successCount, failureCount, trace, thrown, output>>

recordsOnErrorDiscarded(allRecords) == <<>>

\* the catch block of fetchAllRecords returns `records: allRecords`
recordsOnError(allRecords) == allRecords

\* `await fetchFn(params)` rejects: the catch block of fetchAllRecords
FetchThrow ==
  /\ pc = "fetch_wait"
  /\ \E call \in inflight, error \in Throwables :
       LET opts == PaginationOptionsParse(fb.options)
       IN /\ inflight' = inflight \ {call}
          /\ thrown' = Append(thrown, [error |-> error, call |-> call])
          /\ FetchAllReturn([records |-> recordsOnError(fa.allRecords),
                             pagesRetrieved |-> fa.currentPage - opts.startPage + 1,
                             totalRecords |-> Len(fa.allRecords),
                             hasMore |-> TRUE,
                             hasError |-> TRUE,
                             errorMessage |-> fetchErrorMessage(error)])
  /\ UNCHANGED <<ev, tool, input, remote, tz, targetRecords, idx, results,
                 successCount, failureCount, trace, output>>

\* `await delay(opts.delayBetweenRequests)` after a full page
FetchDelay ==
  /\ pc = "fetch_delay"
  /\ trace' = Append(trace, [method |-> "DELAY"])
  /\ pc' = "fetch_loop"
  /\ UNCHANGED <<ev, tool, input, remote, tz, fb, fa, pagination, targetRecords, idx,
                 results, successCount, failureCount, inflight, thrown, output>>

(***************************************************************************)
(* bulkUpdateTool / bulkDeleteTool after the fetch                         *)
(***************************************************************************)
countMatchesAtMost(actualCount, expectedCount) == actualCount <= expectedCount

\* the count check passes: the negation of `actualCount !== input.expectedCount`
countMatches(actualCount, expectedCount) == actualCount = expectedCount

zeroTargetsNever(actualCount) == FALSE

\* `if (actualCount === 0)`
zeroTargets(actualCount) == actualCount = 0

dryRunIgnored(request) == FALSE

\* `if (input.dryRun)`
dryRunRequested(request) == request.dryRun

overallSuccessAnySucceeded(successes, failures) == successes > 0

\* success: failureCount === 0
overallSuccess(successes, failures) == failures = 0

afterFailureBreak(i, n) == n + 1

\* the catch block of the loop body ends the iteration: for..of moves to the
\* next of the n target records
afterFailure(i, n) == i + 1

\* one element of previewResults
previewResult(record) ==
  IF tool = "update"
  THEN LET c == calculateUpdateBody(record, input.updates)
       IN [id |-> record.id, success |-> TRUE, before |-> c.before, after |-> c.after]
  ELSE [id |-> record.id, mode |-> record.mode, success |-> TRUE,
        summary |-> deleteSummary(record)]

\* steps 2 (error check) to 5 of the tools: filter, count check, zero targets, dry run
FilterAndCheck ==
  /\ pc = "fetched"
  /\ IF pagination.hasError
     THEN /\ output' = [success |-> FALSE,
                        message |-> [kind |-> "fetchError", detail |-> pagination.errorMessage],
                        results |-> <<>>, stats |-> ErrorStats]
          /\ pc' = "done"
          /\ UNCHANGED <<targetRecords, idx>>
     ELSE LET targets == filterRecords(pagination.records, input.criteria)
              actualCount == Len(targets)
          IN /\ targetRecords' = targets
             /\ IF ~countMatches(actualCount, input.expectedCount)
                THEN /\ output' = [success |-> FALSE,
                                   message |-> [kind |-> "countMismatch",
                                                expected |-> input.expectedCount,
                                                actual |-> actualCount],
                                   results |-> <<>>,
                                   stats |-> [targetCount |-> actualCount, successCount |-> 0,
                                              failureCount |-> 0, dryRun |-> input.dryRun]]
                     /\ pc' = "done"
                     /\ UNCHANGED idx
                ELSE IF zeroTargets(actualCount)
                THEN /\ output' = [success |-> TRUE, message |-> [kind |-> "noTargets"],
                                   results |-> <<>>, stats |-> ErrorStats]
                     /\ pc' = "done"
                     /\ UNCHANGED idx
                ELSE IF dryRunRequested(input)
                THEN /\ output' = [success |-> TRUE,
                                   message |-> [kind |-> "dryRun", count |-> actualCount],
                                   results |-> [i \in 1..actualCount |-> previewResult(targets[i])],
                                   stats |-> [targetCount |-> actualCount,
                                              successCount |-> actualCount,
                                              failureCount |-> 0, dryRun |-> TRUE]]
                     /\ pc' = "done"
                     /\ UNCHANGED idx
                ELSE /\ idx' = 1
                     /\ pc' = "apply_loop"
                     /\ UNCHANGED output
  /\ UNCHANGED <<ev, tool, input, remote, tz, fb, fa, pagination, results,
                 successCount, failureCount, inflight, trace, thrown>>

\* the endpoint and payload of the write for one target record
writeCall(record) ==
  IF tool = "update"
  THEN [method |-> "PUT", mode |-> record.mode, id |-> record.id,
        body |-> calculateUpdateBody(record, input.updates).body]
  ELSE [method |-> "DELETE", mode |-> record.mode, id |-> record.id]

\* loop body up to `await client.put(endpoint, body)` / `await client.delete(endpoint)`
WriteRequest ==
  /\ pc = "apply_loop"
  /\ idx <= Len(targetRecords)
  /\ LET call == writeCall(targetRecords[idx])
     IN /\ inflight' = inflight \cup {call}
        /\ trace' = Append(trace, call)
  /\ pc' = "apply_wait"
  /\ UNCHANGED <<ev, tool, input, remote, tz, fb, fa, pagination, targetRecords, idx,
                 results, successCount, failureCount, thrown, output>>

\* the write resolved: record the success, then wait for the rate-limit delay
WriteOk ==
  /\ pc = "apply_wait"
  /\ \E call \in inflight :
       /\ inflight' = inflight \ {call}
       /\ results' = Append(results, previewResult(targetRecords[idx]))
  /\ successCount' = successCount + 1
  /\ pc' = "apply_delay"
  /\ UNCHANGED <<ev, tool, input, remote, tz, fb, fa, pagination, targetRecords, idx,
                 failureCount, trace, thrown, output>>

\* the write rejected: the catch block of the loop body
WriteThrow ==
  /\ pc = "apply_wait"
  /\ \E call \in inflight, error \in Throwables :
       LET record == targetRecords[idx]
           errorMessage == toolErrorMessage(error)
       IN /\ inflight' = inflight \ {call}
          /\ thrown' = Append(thrown, [error |-> error, call |-> call])
          /\ results' = Append(results,
               IF tool = "update"
               THEN [id |-> record.id, success |-> FALSE, error |-> errorMessage]
               ELSE [id |-> record.id, mode |-> record.mode, success |-> FALSE,
                     error |-> errorMessage])
  /\ failureCount' = failureCount + 1
  /\ idx' = afterFailure(idx, Len(targetRecords))
  /\ pc' = "apply_loop"
  /\ UNCHANGED <<ev, tool, input, remote, tz, fb, fa, pagination, targetRecords,
                 successCount, trace, output>>

\* `await new Promise(resolve => setTimeout(resolve, 200))` after a successful write
WriteDelay ==
  /\ pc = "apply_delay"
  /\ trace' = Append(trace, [method |-> "DELAY"])
  /\ idx' = idx + 1
  /\ pc' = "apply_loop"
  /\ UNCHANGED <<ev, tool, input, remote, tz, fb, fa, pagination, targetRecords,
                 results, successCount, failureCount, inflight, thrown, output>>

\* after the loop: the final result object
Report ==
  /\ pc = "apply_loop"
  /\ idx > Len(targetRecords)
  /\ output' = [success |-> overallSuccess(successCount, failureCount),
                message |-> [kind |-> "applied", successCount |-> successCount,
                             failureCount |-> failureCount],
                results |-> results,
                stats |-> [targetCount |-> Len(targetRecords), successCount |-> successCount,
                           failureCount |-> failureCount, dryRun |-> FALSE]]
  /\ pc' = "done"
  /\ UNCHANGED <<ev, tool, input, remote, tz, fb, fa, pagination, targetRecords, idx,
                 results, successCount, failureCount, inflight, trace, thrown>>

Next ==
  \/ Validate
  \/ FetchRequest
  \/ FetchResponse
  \/ FetchThrow
  \/ FetchDelay
  \/ FilterAndCheck
  \/ WriteRequest
  \/ WriteOk
  \/ WriteThrow
  \/ WriteDelay
  \/ Report

Spec == Init /\ [][Next]_vars

(***************************************************************************)
(* fetchByDateRanges called on its own, with the caller's options          *)
(***************************************************************************)
F1 == [id |-> 1, mode |-> "payment", date |-> 1, amount |-> 1]

F2 == [id |-> 2, mode |-> "income", date |-> 2, amount |-> 2]

F3 == [id |-> 3, mode |-> "payment", date |-> 3, amount |-> 3]

F4 == [id |-> 4, mode |-> "transfer", date |-> 3, amount |-> 1]

RECURSIVE SeqsUpTo(_, _)
\* the sequences of at most n elements of S
SeqsUpTo(S, n) ==
  IF n = 0 THEN {<<>>}
  ELSE LET shorter == SeqsUpTo(S, n - 1)
       IN shorter \cup {Append(q, x) : q \in shorter, x \in S}

\* what the remote holds: any list of records, the same id possibly twice
FetchLedgers == SeqsUpTo({F1, F2, F3, F4}, MaxLedger)

FetchDateRanges ==
  {[start |-> 1, end |-> 3], [start |-> 2, end |-> 3], [start |-> 1, end |-> 1],
   [start |-> 3, end |-> 2]}

\* Partial<PaginationOptions> objects accepted by PaginationOptionsSchema
FetchOptions ==
  {[delayBetweenRequests |-> 0],
   [delayBetweenRequests |-> 200],
   [delayBetweenRequests |-> 0, maxPages |-> 1],
   [delayBetweenRequests |-> 0, maxRecords |-> 1],
   [delayBetweenRequests |-> 0, maxRecords |-> 2],
   [delayBetweenRequests |-> 0, maxRecords |-> 3],
   [delayBetweenRequests |-> 0, maxPages |-> 1, maxRecords |-> 3],
   [delayBetweenRequests |-> 0, startPage |-> 2],
   [delayBetweenRequests |-> 0, pageSize |-> 3, maxRecords |-> 1]}

FetchInit ==
  /\ ev = EvalIdle
  /\ tool = "fetch"
  /\ input \in {[dateRange |-> d, options |-> o] : d \in FetchDateRanges, o \in FetchOptions}
  /\ remote \in FetchLedgers
  /\ tz \in TimeZones
  /\ pc = "start"
  /\ fb = <<>>
  /\ fa = <<>>
  /\ pagination = <<>>
  /\ targetRecords = <<>>
  /\ idx = 0
  /\ results = <<>>
  /\ successCount = 0
  /\ failureCount = 0
  /\ inflight = {}
  /\ trace = <<>>
  /\ thrown = <<>>
  /\ output = <<>>

\* fetchByDateRanges(fetchFn, startDate, endDate, {}, options) up to its first await
FetchByDateRanges ==
  /\ pc = "start"
  /\ tool = "fetch"
  /\ BeginFetch(input.options)
  /\ UNCHANGED <<ev, tool, input, remote, tz, targetRecords, idx, results,
                 successCount, failureCount, inflight, trace, thrown, output>>

NextFetch ==
  \/ FetchByDateRanges
  \/ FetchRequest
  \/ FetchResponse
  \/ FetchThrow
  \/ FetchDelay

SpecFetch == FetchInit /\ [][NextFetch]_vars

(***************************************************************************)
(* fetchByDateRanges under the event loop: every pending continuation runs *)
(* and every awaited fetch or delay settles                                *)
(***************************************************************************)
FairOptions ==
  {[delayBetweenRequests |-> 0],
   [delayBetweenRequests |-> 200],
   [delayBetweenRequests |-> 0, maxPages |-> 1],
   [delayBetweenRequests |-> 200, maxRecords |-> 3],
   [delayBetweenRequests |-> 0, startPage |-> 2]}

FairLedgers == {<<>>, <<F1, F2, F3, F4>>, <<F3, F1, F4, F2>>}

\* the fetcher is either the remote GET or one that never runs out of pages
FairInputs ==
  {[dateRange |-> d, options |-> o] @@ f :
     d \in FetchDateRanges, o \in FairOptions, f \in {<<>>, [fetcher |-> "fullPage"]}}

FetchFairInit ==
  /\ ev = EvalIdle
  /\ tool = "fetch"
  /\ input \in FairInputs
  /\ remote \in FairLedgers
  /\ tz \in TimeZones
  /\ pc = "start"
  /\ fb = <<>>
  /\ fa = <<>>
  /\ pagination = <<>>
  /\ targetRecords = <<>>
  /\ idx = 0
  /\ results = <<>>
  /\ successCount = 0
  /\ failureCount = 0
  /\ inflight = {}
  /\ trace = <<>>
  /\ thrown = <<>>
  /\ output = <<>>

SpecFetchFair == FetchFairInit /\ [][NextFetch]_vars /\ WF_vars(NextFetch)

(***************************************************************************)
(* search-condition-evaluator.ts: sortRecords, searchAndSort, formatOutput *)
(***************************************************************************)
\* the fields of a record in the order JSON.stringify walks them
SchemaOrder ==
  <<"id", "mode", "user_id", "date", "category_id", "genre_id", "account_id",
    "amount", "comment", "place", "name", "active", "created", "currency_code",
    "category", "genre", "account", "from_account_id", "to_account_id">>

KeyText ==
  [id |-> <<"i", "d">>,
   mode |-> <<"m", "o", "d", "e">>,
   user_id |-> <<"u", "s", "e", "r", "_", "i", "d">>,
   date |-> <<"d", "a", "t", "e">>,
   category_id |-> <<"c", "a", "t", "e", "g", "o", "r", "y", "_", "i", "d">>,
   genre_id |-> <<"g", "e", "n", "r", "e", "_", "i", "d">>,
   account_id |-> <<"a", "c", "c", "o", "u", "n", "t", "_", "i", "d">>,
   amount |-> <<"a", "m", "o", "u", "n", "t">>,
   comment |-> <<"c", "o", "m", "m", "e", "n", "t">>,
   place |-> <<"p", "l", "a", "c", "e">>,
   name |-> <<"n", "a", "m", "e">>,
   active |-> <<"a", "c", "t", "i", "v", "e">>,
   created |-> <<"c", "r", "e", "a", "t", "e", "d">>,
   currency_code |-> <<"c", "u", "r", "r", "e", "n", "c", "y", "_", "c", "o", "d", "e">>,
   category |-> <<"c", "a", "t", "e", "g", "o", "r", "y">>,
   genre |-> <<"g", "e", "n", "r", "e">>,
   account |-> <<"a", "c", "c", "o", "u", "n", "t">>,
   from_account_id |-> <<"f", "r", "o", "m", "_", "a", "c", "c", "o", "u", "n", "t", "_", "i", "d">>,
   to_account_id |-> <<"t", "o", "_", "a", "c", "c", "o", "u", "n", "t", "_", "i", "d">>]

ModeText ==
  [payment |-> <<"p", "a", "y", "m", "e", "n", "t">>,
   income |-> <<"i", "n", "c", "o", "m", "e">>,
   transfer |-> <<"t", "r", "a", "n", "s", "f", "e", "r">>]

Digits == <<"0", "1", "2", "3", "4", "5", "6", "7", "8", "9">>

RECURSIVE numberText(_)
\* the decimal text of a non-negative integer
numberText(n) ==
  IF n < 10 THEN <<Digits[n + 1]>>
  ELSE numberText(n \div 10) \o <<Digits[(n % 10) + 1]>>

\* the YYYY-MM-DD text of a day index (the days of one month)
dateText(day) ==
  <<"2", "0", "2", "4", "-", "0", "1", "-">>
  \o (IF day + 1 < 10 THEN <<"0">> ELSE <<>>) \o numberText(day + 1)

\* JSON text of a string without characters to escape
jsonString(s) == <<"\"">> \o s \o <<"\"">>

\* `key in obj`
hasKey(obj, key) == key \in (DOMAIN obj \ {"nulls"}) \/ IsNull(obj, key)

\* JSON text of the value of one member of a record
valueText(obj, key) ==
  IF IsNull(obj, key) THEN <<"n", "u", "l", "l">>
  ELSE IF key = "mode" THEN jsonString(ModeText[obj[key]])
  ELSE IF key = "date" THEN jsonString(dateText(obj[key]))
  ELSE IF key \in StringFields THEN jsonString(obj[key])
  ELSE numberText(obj[key])

RECURSIVE joinMembers(_, _, _)
joinMembers(obj, keys, i) ==
  IF i > Len(keys) THEN <<>>
  ELSE (IF i > 1 THEN <<",">> ELSE <<>>)
       \o jsonString(KeyText[keys[i]]) \o <<":">> \o valueText(obj, keys[i])
       \o joinMembers(obj, keys, i + 1)

RECURSIVE withoutRepeats(_)
\* a key assigned twice keeps the position of its first assignment
withoutRepeats(keys) ==
  IF keys = <<>> THEN <<>>
  ELSE <<Head(keys)>> \o withoutRepeats(SelectSeq(Tail(keys), LAMBDA k : k # Head(keys)))

\* JSON.stringify of a formatted record: a number (id_only) or an object
\* whose members are in the order `order`
JSONstringify(isNumber, value, order) ==
  IF isNumber THEN numberText(value)
  ELSE LET keys == withoutRepeats(SelectSeq(order, LAMBDA k : hasKey(value, k)))
       IN <<"{">> \o joinMembers(value, keys, 1) \o <<"}">>

\* String.prototype.slice(0, end)
sliceTo(s, end) ==
  IF end >= 0 THEN SubSeq(s, 1, Min(end, Len(s)))
  ELSE SubSeq(s, 1, IF Len(s) + end > 0 THEN Len(s) + end ELSE 0)

\* outputControl?.key, with <<>> for an undefined outputControl
Defined(obj, key) == key \in DOMAIN obj

stringifyWithLimit(isNumber, record, order, outputControl) ==
  LET json == JSONstringify(isNumber, record, order)
  IN IF ~Defined(outputControl, "maxCharsPerRecord")
        \/ Len(json) <= outputControl.maxCharsPerRecord
     THEN json
     ELSE sliceTo(json, outputControl.maxCharsPerRecord - 3) \o <<".", ".", ".">>

\* pickFields(record, fields)
pickFields(record, fields) ==
  LET present == {fields[i] : i \in 1..Len(fields)} \cap (DOMAIN record \ {"nulls"})
      absentNull == {fields[i] : i \in 1..Len(fields)} \cap
                      (IF "nulls" \in DOMAIN record THEN record.nulls ELSE {})
  IN [k \in present |-> record[k]]
     @@ (IF absentNull # {} THEN [nulls |-> absentNull] ELSE <<>>)

outputMode(outputControl) ==
  IF Defined(outputControl, "mode") THEN outputControl.mode ELSE "full"

\* `fields && fields.length > 0` under mode 'specified'
picksFields(outputControl) ==
  /\ outputMode(outputControl) = "specified"
  /\ Defined(outputControl, "fields")
  /\ Len(outputControl.fields) > 0

\* the switch on mode in the loop of formatOutput
formatRecord(record, outputControl) ==
  IF outputMode(outputControl) = "id_only" THEN record.id
  ELSE IF picksFields(outputControl) THEN pickFields(record, outputControl.fields)
  ELSE record

memberOrder(outputControl) ==
  IF picksFields(outputControl) THEN outputControl.fields ELSE SchemaOrder

\* the text formatOutput counts for one formatted record
countedText(formattedRecord, outputControl) ==
  stringifyWithLimit(outputMode(outputControl) = "id_only", formattedRecord,
                     memberOrder(outputControl), outputControl)

exceedsTotalBeforeAdding(totalChars, recordChars, maxTotalChars) ==
  totalChars > maxTotalChars

\* `totalChars + recordChars > maxTotalChars`
exceedsTotal(totalChars, recordChars, maxTotalChars) ==
  totalChars + recordChars > maxTotalChars

RECURSIVE formatLoop(_, _, _, _, _)
\* the for..of loop of formatOutput from record i on
formatLoop(records, i, outputControl, formattedRecords, totalChars) ==
  IF i > Len(records)
  THEN [records |-> formattedRecords, count |-> Len(formattedRecords),
        truncated |-> FALSE, truncatedCount |-> 0]
  ELSE LET formattedRecord == formatRecord(records[i], outputControl)
           recordChars == Len(countedText(formattedRecord, outputControl))
       IN IF /\ Defined(outputControl, "maxTotalChars")
             /\ exceedsTotal(totalChars, recordChars, outputControl.maxTotalChars)
          THEN [records |-> formattedRecords, count |-> Len(formattedRecords),
                truncated |-> TRUE,
                truncatedCount |-> Len(records) - Len(formattedRecords)]
          ELSE formatLoop(records, i + 1, outputControl,
                          Append(formattedRecords, formattedRecord),
                          totalChars + recordChars)

formatOutput(records, outputControl) == formatLoop(records, 1, outputControl, <<>>, 0)

\* position of a letter in the alphabet, case ignored
LetterRank(ch) == IF LowerChar(ch) = "a" THEN 1 ELSE 2

IsUpper(ch) == LowerChar(ch) # ch

RECURSIVE compareLetters(_, _)
\* lexicographic comparison of two strings by letter, case ignored
compareLetters(s, t) ==
  IF s = <<>> /\ t = <<>> THEN 0
  ELSE IF s = <<>> THEN -1
  ELSE IF t = <<>> THEN 1
  ELSE IF LetterRank(Head(s)) < LetterRank(Head(t)) THEN -1
  ELSE IF LetterRank(Head(s)) > LetterRank(Head(t)) THEN 1
  ELSE compareLetters(Tail(s), Tail(t))

RECURSIVE compareCase(_, _)
\* between strings of the same letters: lower case before upper case at the
\* first position where the case differs
compareCase(s, t) ==
  IF s = <<>> \/ t = <<>> THEN 0
  ELSE IF IsUpper(Head(s)) = IsUpper(Head(t)) THEN compareCase(Tail(s), Tail(t))
  ELSE IF IsUpper(Head(t)) THEN -1 ELSE 1

\* String.prototype.localeCompare(other, 'ja') on latin letters
localeCompare(s, t) ==
  LET primary == compareLetters(s, t)
  IN IF primary # 0 THEN primary ELSE compareCase(s, t)

\* `record.key || ''`
orEmptyString(record, key) == IF HasValue(record, key) THEN record[key] ELSE <<>>

compareRecordsOldestFirst(a, b) ==
  IF a.date # b.date THEN (IF a.date < b.date THEN -1 ELSE 1)
  ELSE 0

\* the comparator of sortRecords
compareRecords(a, b) ==
  IF a.date # b.date THEN (IF b.date < a.date THEN -1 ELSE 1)
  ELSE LET placeCompare == localeCompare(orEmptyString(a, "place"), orEmptyString(b, "place"))
       IN IF placeCompare # 0 THEN placeCompare
          ELSE localeCompare(orEmptyString(a, "name"), orEmptyString(b, "name"))

RECURSIVE insertSorted(_, _)
\* stable insertion: after every element that does not come after `record`
insertSorted(sorted, record) ==
  IF sorted = <<>> THEN <<record>>
  ELSE IF compareRecords(Head(sorted), record) <= 0
       THEN <<Head(sorted)>> \o insertSorted(Tail(sorted), record)
       ELSE <<record>> \o sorted

RECURSIVE sortFrom(_, _, _)
sortFrom(records, i, sorted) ==
  IF i > Len(records) THEN sorted
  ELSE sortFrom(records, i + 1, insertSorted(sorted, records[i]))

\* [...records].sort(comparator): Array.prototype.sort is stable
sortRecords(records) == sortFrom(records, 1, <<>>)

searchAndSortUncut(records, criteria, maxRecords) ==
  sortRecords(filterRecords(records, criteria))

\* maxRecords is 0 for `undefined`
searchAndSort(records, criteria, maxRecords) ==
  LET result == sortRecords(filterRecords(records, criteria))
  IN IF maxRecords > 0 THEN slice0(result, maxRecords) ELSE result

\* the criteria advancedSearchTool uses when none is given
MatchAll == [field |-> "date", operator |-> "onOrAfter", value |-> -1]

\* steps 2 and 3 of advancedSearchTool
searchAndFormat(records, request) ==
  LET maxRecords == IF Defined(request, "output") /\ Defined(request.output, "maxRecords")
                    THEN request.output.maxRecords ELSE 0
      criteria == IF Defined(request, "criteria") THEN request.criteria ELSE MatchAll
      sorted == searchAndSort(records, criteria, maxRecords)
      outputResult == formatOutput(sorted, IF Defined(request, "output")
                                           THEN request.output ELSE <<>>)
  IN [outputResult |-> outputResult, matchedCount |-> Len(sorted)]

(***************************************************************************)
(* formatOutput called on its own, and after searchAndSort                 *)
(***************************************************************************)
R1 == [id |-> 1, mode |-> "payment", date |-> 2, amount |-> 1, place |-> <<"a">>]

R2 == [id |-> 2, mode |-> "income", date |-> 2, amount |-> 20, place |-> <<"A">>,
       name |-> <<"b">>]

R3 == [id |-> 3, mode |-> "payment", date |-> 1, amount |-> 3, place |-> <<"a">>,
       name |-> <<"a">>]

R4 == [id |-> 12, mode |-> "transfer", date |-> 3, amount |-> 1]

FormatRecords == SeqsUpTo({R1, R2, R3, R4}, MaxFormat)

\* the objects accepted as OutputControl
OutputControls ==
  {m @@ c @@ t @@ n :
     m \in {<<>>, [mode |-> "full"], [mode |-> "id_only"], [mode |-> "specified"],
            [mode |-> "specified", fields |-> <<"place", "id">>]},
     c \in {<<>>, [maxCharsPerRecord |-> 2], [maxCharsPerRecord |-> 20]},
     t \in {<<>>, [maxTotalChars |-> 1], [maxTotalChars |-> 4],
            [maxTotalChars |-> 62], [maxTotalChars |-> 140]},
     n \in {<<>>, [maxRecords |-> 1], [maxRecords |-> 2]}}

FormatCriteria == {<<>>, [criteria |-> PPlace], [criteria |-> And(<<PAmount, PDate>>)]}

FormatRequests ==
  FormatCriteria \cup {c @@ [output |-> o] : c \in FormatCriteria, o \in OutputControls}

FormatInit ==
  /\ ev = EvalIdle
  /\ tool = "format"
  /\ input \in {[call |-> f, records |-> r, request |-> q] :
                  f \in {"formatOutput", "searchAndFormat"},
                  r \in FormatRecords, q \in FormatRequests}
  /\ remote = <<>>
  /\ tz = 0
  /\ pc = "start"
  /\ fb = <<>>
  /\ fa = <<>>
  /\ pagination = <<>>
  /\ targetRecords = <<>>
  /\ idx = 0
  /\ results = <<>>
  /\ successCount = 0
  /\ failureCount = 0
  /\ inflight = {}
  /\ trace = <<>>
  /\ thrown = <<>>
  /\ output = <<>>

\* the outputControl argument of a request: undefined is <<>>
controlOf(request) == IF Defined(request, "output") THEN request.output ELSE <<>>

\* formatOutput(records, outputControl)
FormatOutput ==
  /\ pc = "start"
  /\ tool = "format"
  /\ input.call = "formatOutput"
  /\ output' = formatOutput(input.records, controlOf(input.request))
  /\ pc' = "done"
  /\ UNCHANGED <<ev, tool, input, remote, tz, fb, fa, pagination, targetRecords, idx,
                 results, successCount, failureCount, inflight, trace, thrown>>

\* searchAndSort(records, criteria, output?.maxRecords), then formatOutput
SearchAndFormat ==
  /\ pc = "start"
  /\ tool = "format"
  /\ input.call = "searchAndFormat"
  /\ LET r == searchAndFormat(input.records, input.request)
     IN output' = r.outputResult @@ [matchedCount |-> r.matchedCount]
  /\ pc' = "done"
  /\ UNCHANGED <<ev, tool, input, remote, tz, fb, fa, pagination, targetRecords, idx,
                 results, successCount, failureCount, inflight, trace, thrown>>

NextFormat ==
  \/ FormatOutput
  \/ SearchAndFormat

SpecFormat == FormatInit /\ [][NextFormat]_vars

(***************************************************************************)
(* advancedSearchTool                                                      *)
(***************************************************************************)
SearchLedgers ==
  {<<>>, <<R3, R1, R2, R4>>, <<R2, R1, R3>>, <<R1, R2, R4, R3, R1>>}

SearchOutputs ==
  {<<>>,
   [output |-> [mode |-> "id_only"]],
   [output |-> [mode |-> "full", maxRecords |-> 2]],
   [output |-> [mode |-> "id_only", maxRecords |-> 1]],
   [output |-> [maxTotalChars |-> 140]],
   [output |-> [mode |-> "specified", fields |-> <<"place", "id">>,
                maxCharsPerRecord |-> 20, maxTotalChars |-> 62]]}

\* the objects accepted by AdvancedSearchToolInputSchema
SearchInputs ==
  {[dateRange |-> d] @@ c @@ o @@ l :
     d \in DateRanges, c \in FormatCriteria, o \in SearchOutputs,
     l \in {<<>>, [limit |-> 3]}}

SearchInit ==
  /\ ev = EvalIdle
  /\ tool = "search"
  /\ input \in SearchInputs
  /\ remote \in SearchLedgers
  /\ tz \in TimeZones
  /\ pc = "start"
  /\ fb = <<>>
  /\ fa = <<>>
  /\ pagination = <<>>
  /\ targetRecords = <<>>
  /\ idx = 0
  /\ results = <<>>
  /\ successCount = 0
  /\ failureCount = 0
  /\ inflight = {}
  /\ trace = <<>>
  /\ thrown = <<>>
  /\ output = <<>>

\* { maxRecords: input.limit, delayBetweenRequests: 200 }
SearchOptions ==
  [delayBetweenRequests |-> 200]
  @@ (IF Defined(input, "limit") THEN [maxRecords |-> input.limit] ELSE <<>>)

\* advancedSearchTool up to the first await inside fetchByDateRanges
SearchFetch ==
  /\ pc = "start"
  /\ tool = "search"
  /\ BeginFetch(SearchOptions)
  /\ UNCHANGED <<ev, tool, input, remote, tz, targetRecords, idx, results,
                 successCount, failureCount, inflight, trace, thrown, output>>

recordsOnFetchErrorKept(paginationResult) == paginationResult.records

\* the response to a failed fetch carries `records: []`
recordsOnFetchError(paginationResult) == <<>>

\* advancedSearchTool after fetchByDateRanges returned
SearchRespond ==
  /\ pc = "fetched"
  /\ tool = "search"
  /\ IF pagination.hasError
     THEN output' = [records |-> recordsOnFetchError(pagination), count |-> 0,
                     truncated |-> FALSE, truncatedCount |-> 0,
                     success |-> FALSE,
                     message |-> [kind |-> "fetchError",
                                  detail |-> pagination.errorMessage],
                     meta |-> [pagesRetrieved |-> pagination.pagesRetrieved,
                               totalFetched |-> pagination.totalRecords,
                               matchedCount |-> 0, outputCount |-> 0]]
     ELSE LET r == searchAndFormat(pagination.records, input)
          IN output' = [records |-> r.outputResult.records,
                        count |-> r.outputResult.count,
                        truncated |-> r.outputResult.truncated,
                        truncatedCount |-> r.outputResult.truncatedCount,
                        success |-> TRUE,
                        message |-> [kind |-> "found", count |-> r.outputResult.count,
                                     matchedCount |-> r.matchedCount],
                        meta |-> [pagesRetrieved |-> pagination.pagesRetrieved,
                                  totalFetched |-> pagination.totalRecords,
                                  matchedCount |-> r.matchedCount,
                                  outputCount |-> r.outputResult.count]]
  /\ pc' = "done"
  /\ UNCHANGED <<ev, tool, input, remote, tz, fb, fa, pagination, targetRecords, idx,
                 results, successCount, failureCount, inflight, trace, thrown>>

NextSearch ==
  \/ SearchFetch
  \/ FetchRequest
  \/ FetchResponse
  \/ FetchThrow
  \/ FetchDelay
  \/ SearchRespond

SpecSearch == SearchInit /\ [][NextSearch]_vars

(***************************************************************************)
(* Vocabulary of the properties                                            *)
(***************************************************************************)
IsComposite(c) == "conditions" \in DOMAIN c

RECURSIVE RefEval(_, _)
\* reference semantics of a criteria tree: the empty list is true, AND is
\* "every child", OR is "some child"; a predicate is evaluated as a predicate
RefEval(record, c) ==
  IF ~IsComposite(c) THEN evaluateCondition(record, c)
  ELSE IF c.conditions = <<>> THEN TRUE
  ELSE IF c.operator = "AND"
       THEN \A i \in 1..Len(c.conditions) : RefEval(record, c.conditions[i])
       ELSE \E i \in 1..Len(c.conditions) : RefEval(record, c.conditions[i])

RECURSIVE RefEmptyComposite(_)
\* a composite with no sub-condition, or whose sub-conditions are all such
RefEmptyComposite(c) ==
  /\ IsComposite(c)
  /\ \A i \in 1..Len(c.conditions) : RefEmptyComposite(c.conditions[i])

RECURSIVE FieldsOf(_)
\* the field names of the predicates of a criteria tree, at any depth
FieldsOf(c) ==
  IF IsComposite(c)
  THEN UNION {FieldsOf(c.conditions[i]) : i \in 1..Len(c.conditions)}
  ELSE {c.field}

Returned == pc = "done"

\* fetchByDateRanges returned to the tool without error
FetchSucceeded == pc \in {"fetched", "apply_loop", "apply_wait", "apply_delay", "done"}
                  /\ DOMAIN pagination # {}
                  /\ ~pagination.hasError

\* the fetched records that satisfy the criteria, in fetch order
MatchingIds ==
  LET recs == pagination.records
      hit == {i \in 1..Len(recs) : RefEval(recs[i], input.criteria)}
  IN [k \in 1..Cardinality(hit) |->
        recs[CHOOSE i \in hit : Cardinality({j \in hit : j <= i}) = k].id]

ActualCount == Len(MatchingIds)

IsWrite(call) == call.method \in {"PUT", "DELETE"}

Writes == SelectSeq(trace, IsWrite)

PageFetches == SelectSeq(trace, LAMBDA call : call.method = "GET")

ResultIds == [i \in 1..Len(output.results) |-> output.results[i].id]

WriteIds == [i \in 1..Len(Writes) |-> Writes[i].id]

Applied == Returned /\ output.message.kind = "applied"

(***************************************************************************)
(* C1: when the number of fetched records satisfying the criteria differs  *)
(* from expectedCount, the tool returns success=false with a count-mismatch*)
(* error, empty results, stats.targetCount = the matched count, and has    *)
(* issued no PUT/DELETE, with and without dryRun.                          *)
(***************************************************************************)
CountMismatchFails ==
  (Returned /\ FetchSucceeded /\ ActualCount # input.expectedCount) =>
    /\ output.success = FALSE
    /\ output.message.kind = "countMismatch"
    /\ output.message.actual = ActualCount
    /\ output.results = <<>>
    /\ output.stats.targetCount = ActualCount
    /\ Writes = <<>>

CountMismatchWitness ==
  /\ Returned /\ FetchSucceeded
  /\ ActualCount = 2 /\ input.expectedCount = 3
  /\ ~input.dryRun
  /\ output.message.kind = "countMismatch"

(***************************************************************************)
(* C2: with dryRun=true no PUT/DELETE is ever issued; when the count check *)
(* passes the tool returns success=true, stats.dryRun=true, one preview    *)
(* entry per target record and successCount = targetCount.                 *)
(***************************************************************************)
DryRunNeverWrites ==
  (pc # "idle" /\ input.dryRun) =>
    /\ Writes = <<>>
    /\ (Returned /\ FetchSucceeded /\ ActualCount = input.expectedCount) =>
         /\ output.success = TRUE
         /\ output.stats.dryRun = TRUE
         /\ ResultIds = MatchingIds
         /\ \A i \in 1..Len(output.results) : output.results[i].success
         /\ output.stats.targetCount = ActualCount
         /\ output.stats.successCount = output.stats.targetCount

DryRunWitness ==
  /\ Returned /\ input.dryRun /\ FetchSucceeded
  /\ tool = "update"
  /\ ActualCount = 2 /\ input.expectedCount = 2
  /\ Len(output.results) = 2

(***************************************************************************)
(* C3: bulkUpdateTool: if a field set in updates has no predicate on that  *)
(* field anywhere in the criteria tree, the tool returns success=false     *)
(* with a consistency error naming every such field, and issues neither a  *)
(* page fetch nor a write.                                                 *)
(***************************************************************************)
MissingUpdateFields == {f \in DOMAIN input.updates : f \notin FieldsOf(input.criteria)}

UncoveredUpdateRejected ==
  (tool = "update" /\ pc # "start" /\ MissingUpdateFields # {}) =>
    /\ Returned
    /\ output.success = FALSE
    /\ output.message.kind = "consistency"
    /\ {output.message.fields[i] : i \in 1..Len(output.message.fields)} = MissingUpdateFields
    /\ output.results = <<>>
    /\ trace = <<>>

UncoveredUpdateWitness ==
  /\ tool = "update" /\ Returned
  /\ IsComposite(input.criteria) /\ input.criteria.conditions # <<>>
  /\ MissingUpdateFields = {"category_id", "place"}
  /\ output.message.kind = "consistency"

(***************************************************************************)
(* C4: bulkDeleteTool: an empty composite criteria (no sub-condition, or   *)
(* only recursively empty composites) is rejected with a safety error      *)
(* before any page fetch or delete, whatever dateRange, expectedCount and  *)
(* dryRun are.                                                             *)
(***************************************************************************)
EmptyCriteriaRejected ==
  (tool = "delete" /\ pc # "start" /\ RefEmptyComposite(input.criteria)) =>
    /\ Returned
    /\ output.success = FALSE
    /\ output.message.kind = "safety"
    /\ output.results = <<>>
    /\ trace = <<>>

EmptyCriteriaWitness ==
  /\ tool = "delete" /\ Returned
  /\ input.criteria = And(<<Or(<<>>), And(<<>>)>>)
  /\ input.dateRange = [start |-> 1, end |-> 3]
  /\ ~input.dryRun
  /\ output.message.kind = "safety"

(***************************************************************************)
(* C5: in the non-dry-run APPLY phase every target record receives exactly *)
(* one write attempt, in target order and one at a time (a write is issued *)
(* only after the previous one completed); a failed write does not prevent *)
(* the attempts for the remaining targets.                                 *)
(***************************************************************************)
TargetIds == [i \in 1..Len(targetRecords) |-> targetRecords[i].id]

SequentialApply ==
  /\ Cardinality(inflight) <= 1
  /\ pc = "apply_loop" => (inflight = {} /\ WriteIds = SubSeq(TargetIds, 1, idx - 1))
  /\ pc = "apply_wait" => (inflight = {Writes[idx]} /\ WriteIds = SubSeq(TargetIds, 1, idx))
  /\ pc = "apply_delay" => (inflight = {} /\ WriteIds = SubSeq(TargetIds, 1, idx))
  /\ Applied =>
       /\ inflight = {}
       /\ WriteIds = TargetIds
       /\ TargetIds = MatchingIds
       /\ \A i \in 1..Len(Writes) :
            /\ Writes[i].method = (IF tool = "update" THEN "PUT" ELSE "DELETE")
            /\ Writes[i].mode = targetRecords[i].mode

SequentialApplyWitness ==
  /\ Applied
  /\ Len(targetRecords) = 3
  /\ ~output.results[1].success
  /\ output.results[2].success
  /\ ~output.results[3].success
  /\ Len(Writes) = 3

(***************************************************************************)
(* C6: after a non-dry-run APPLY, for any pattern of write successes and   *)
(* failures: one result per target record, successCount + failureCount =   *)
(* targetCount = number of results, successCount = number of entries with  *)
(* success=true, and success iff failureCount = 0.                         *)
(***************************************************************************)
ApplyAccounting ==
  Applied =>
    /\ ResultIds = MatchingIds
    /\ output.stats.targetCount = Len(output.results)
    /\ output.stats.targetCount = ActualCount
    /\ output.stats.successCount + output.stats.failureCount = output.stats.targetCount
    /\ output.stats.successCount
         = Cardinality({i \in 1..Len(output.results) : output.results[i].success})
    /\ output.success <=> (output.stats.failureCount = 0)
    /\ output.stats.dryRun = FALSE

ApplyAccountingWitness ==
  /\ Applied
  /\ output.stats.successCount = 1
  /\ output.stats.failureCount = 2
  /\ output.success = FALSE

(***************************************************************************)
(* C7 as stated: a request whose criteria match zero of the fetched        *)
(* records succeeds trivially: success=true, empty results, targetCount=0, *)
(* no write, not an error.                                                 *)
(***************************************************************************)
ZeroMatchSucceeds ==
  (Returned /\ FetchSucceeded /\ ActualCount = 0) =>
    /\ output.success = TRUE
    /\ output.results = <<>>
    /\ output.stats.targetCount = 0
    /\ Writes = <<>>

(***************************************************************************)
(* C7 amended: a request whose criteria match zero of the fetched records  *)
(* succeeds trivially (success=true, the no-target message, empty results, *)
(* targetCount=0, no write) when expectedCount is 0; with any other        *)
(* expectedCount it fails with the count-mismatch error, and no write.     *)
(***************************************************************************)
ZeroMatchSucceedsIfExpectedZero ==
  (Returned /\ FetchSucceeded /\ ActualCount = 0) =>
    /\ output.results = <<>>
    /\ output.stats.targetCount = 0
    /\ Writes = <<>>
    /\ input.expectedCount = 0 =>
         (output.success = TRUE /\ output.message.kind = "noTargets")
    /\ input.expectedCount # 0 =>
         (output.success = FALSE /\ output.message.kind = "countMismatch")

ZeroMatchWitness ==
  /\ Returned /\ FetchSucceeded
  /\ Len(pagination.records) > 0
  /\ ActualCount = 0 /\ input.expectedCount = 0
  /\ output.success = TRUE

(***************************************************************************)
(* C8: if a page fetch fails while a bulk tool gathers records, the tool   *)
(* stops there and returns success=false with a message carrying the       *)
(* failure's message, empty results and no write; nothing is raised.       *)
(***************************************************************************)
FetchFailed == Len(thrown) > 0 /\ thrown[1].call.method = "GET"

FetchFailureSurfaced ==
  (pc # "idle" /\ FetchFailed) =>
    /\ pc \in {"fetched", "done"}
    /\ Writes = <<>>
    /\ Len(thrown) = 1
    /\ Returned =>
         /\ output.success = FALSE
         /\ output.message.kind = "fetchError"
         /\ thrown[1].error.isError => output.message.detail = thrown[1].error.message
         /\ output.results = <<>>

FetchFailureWitness ==
  /\ Returned /\ FetchFailed
  /\ Len(PageFetches) = 3
  /\ thrown[1].error = [isError |-> TRUE, message |-> "E2"]
  /\ output.message = [kind |-> "fetchError", detail |-> "E2"]

(***************************************************************************)
(* C9: evaluateCriteria on a composite condition equals the reference      *)
(* semantics for every record and nesting: an empty list is true under AND *)
(* and OR, a non-empty AND is true iff every child is, a non-empty OR iff  *)
(* some child is, children being evaluated recursively.                    *)
(***************************************************************************)
CompositeMatchesReference ==
  (ev.armed /\ ev.done /\ IsComposite(ev.criteria)) =>
    ev.result = RefEval(ev.record, ev.criteria)

CompositeWitness ==
  /\ ev.armed /\ ev.done
  /\ ev.criteria = And(<<Or(<<>>), [field |-> "mode", operator |-> "equals", value |-> "payment"]>>)
  /\ HasValue(ev.record, "mode") /\ ev.record.mode = "payment"
  /\ ev.result = TRUE

(***************************************************************************)
(* C10: on a record where the predicate's field is absent (undefined or    *)
(* null), a predicate with any operator valid for the field (string,       *)
(* numeric including notEquals, date, mode) evaluates to false.            *)
(***************************************************************************)
FieldAbsent(record, f) ==
  f \notin DOMAIN record \/ ("nulls" \in DOMAIN record /\ f \in record.nulls)

AbsentFieldIsFalse ==
  (ev.armed /\ ev.done /\ ~IsComposite(ev.criteria)
     /\ FieldAbsent(ev.record, ev.criteria.field)) =>
    ev.result = FALSE

AbsentFieldWitness ==
  /\ ev.armed /\ ev.done
  /\ ev.criteria = [field |-> "amount", operator |-> "notEquals", value |-> 1]
  /\ "amount" \in ev.record.nulls
  /\ ev.result = FALSE

(***************************************************************************)
(* Vocabulary of the fetch properties                                      *)
(***************************************************************************)
IdsOf(records) == {records[i].id : i \in 1..Len(records)}

\* the page fetches that resolved with a page, in issue order
ResolvedFetches ==
  SelectSeq(PageFetches,
            LAMBDA call : /\ call \notin inflight
                          /\ \A k \in 1..Len(thrown) : thrown[k].call # call)

RECURSIVE PagesOf(_)
\* the records of the pages the remote returned to the given calls, in order
PagesOf(calls) ==
  IF calls = <<>> THEN <<>> ELSE fetchFn(Head(calls)) \o PagesOf(Tail(calls))

Accumulated == PagesOf(ResolvedFetches)

FetchReturned == tool = "fetch" /\ pc = "fetched"

MaxRecordsSet == "maxRecords" \in DOMAIN input.options

\* the accumulated records, cut to maxRecords when it is set
AccumulatedCut ==
  IF MaxRecordsSet /\ Len(Accumulated) > input.options.maxRecords
  THEN SubSeq(Accumulated, 1, input.options.maxRecords)
  ELSE Accumulated

PageFetchFailed == Len(thrown) > 0 /\ thrown[1].call.method = "GET"

\* a sub-window ended normally: one of its pages was shorter than pageSize
EndedWithShortPage(range) ==
  \E k \in 1..Len(ResolvedFetches) :
     LET call == ResolvedFetches[k]
     IN /\ call.start_date = range.start
        /\ call.end_date = range.end
        /\ Len(fetchFn(call)) < call.limit

\* the fetch ended without error and not every sub-window was walked to a
\* short page: a maxPages or maxRecords limit stopped it
StoppedByLimit ==
  /\ FetchReturned
  /\ ~pagination.hasError
  /\ DOMAIN fb # {}
  /\ \E i \in 1..Len(fb.ranges) : ~EndedWithShortPage(fb.ranges[i])

(***************************************************************************)
(* C11: when a page fetch fails, no further page fetch is issued (the      *)
(* failed call stays the last one), and the orchestrator returns           *)
(* hasError=true, the failure's message, and a record list holding every   *)
(* record of the pages fetched successfully before the failure.            *)
(***************************************************************************)
FetchErrorKeepsEveryRecord ==
  PageFetchFailed =>
    /\ PageFetches[Len(PageFetches)] = thrown[1].call
    /\ Len(thrown) = 1
    /\ FetchReturned =>
         /\ pagination.hasError
         /\ thrown[1].error.isError =>
              pagination.errorMessage = thrown[1].error.message
         /\ IdsOf(Accumulated) \subseteq IdsOf(pagination.records)

\* C11 as amended: the record list holds every record of the pages fetched
\* before the failure among the first maxRecords accumulated ones (all of
\* them when maxRecords is not set), and nothing else; the message is the
\* Error's message, or the fixed text when the thrown value is not an Error.
FetchErrorKeepsRecordsUpToMax ==
  PageFetchFailed =>
    /\ PageFetches[Len(PageFetches)] = thrown[1].call
    /\ Len(thrown) = 1
    /\ inflight = {}
    /\ FetchReturned =>
         /\ pagination.hasError
         /\ pagination.errorMessage =
              (IF thrown[1].error.isError THEN thrown[1].error.message
               ELSE "Unknown error occurred")
         /\ IdsOf(pagination.records) = IdsOf(AccumulatedCut)
         /\ \A i \in 1..Len(pagination.records) :
               \E j \in 1..Len(AccumulatedCut) : AccumulatedCut[j] = pagination.records[i]

FetchErrorWitness ==
  /\ FetchReturned
  /\ PageFetchFailed
  /\ Len(ResolvedFetches) >= 2
  /\ fb.i = 2
  /\ Len(pagination.records) >= 2

(***************************************************************************)
(* C12: when the fetch stops because the maxPages or the maxRecords limit  *)
(* was hit, not because every sub-window ended with a short page, the      *)
(* result of fetchByDateRanges has hasMore=true and hasError=false.        *)
(***************************************************************************)
LimitStopSetsHasMore ==
  StoppedByLimit => pagination.hasMore /\ ~pagination.hasError

(***************************************************************************)
(* C13: with maxRecords set, the returned list never has more than         *)
(* maxRecords records, and when the accumulated records exceed maxRecords  *)
(* it has exactly maxRecords records and hasMore=true.                     *)
(***************************************************************************)
TruncatedToMaxRecords ==
  (FetchReturned /\ MaxRecordsSet) =>
    /\ Len(pagination.records) <= input.options.maxRecords
    /\ Len(Accumulated) > input.options.maxRecords =>
         /\ Len(pagination.records) = input.options.maxRecords
         /\ pagination.hasMore

(***************************************************************************)
(* C14: the list returned by fetchByDateRanges has no two records with the *)
(* same id; removeDuplicates keeps exactly the first occurrence of every   *)
(* id in the original order (one duplicated id: length n-1), keeps the set *)
(* of ids, and is idempotent.                                              *)
(***************************************************************************)
\* the list fetchByDateRanges hands to removeDuplicates
DedupInput ==
  IF DOMAIN fb = {} THEN <<>>
  ELSE IF MaxRecordsSet /\ Len(fb.allRecords) > input.options.maxRecords
       THEN SubSeq(fb.allRecords, 1, input.options.maxRecords)
       ELSE fb.allRecords

\* the positions of a list that hold the first occurrence of their id
FirstPositions(list) ==
  {i \in 1..Len(list) : \A j \in 1..(i - 1) : list[j].id # list[i].id}

\* the elements at the given positions, in order
Pick(list, positions) ==
  [k \in 1..Cardinality(positions) |->
     list[CHOOSE i \in positions : Cardinality({j \in positions : j <= i}) = k]]

DedupKeepsFirstOccurrences ==
  FetchReturned =>
    LET in == DedupInput
        out == pagination.records
    IN /\ \A i, j \in 1..Len(out) : out[i].id = out[j].id => i = j
       /\ out = Pick(in, FirstPositions(in))
       /\ IdsOf(out) = IdsOf(in)
       /\ removeDuplicates(out) = out
       /\ (Cardinality(FirstPositions(in)) = Len(in) - 1) => Len(out) = Len(in) - 1

DedupWitness ==
  /\ FetchReturned
  /\ Len(DedupInput) = 4
  /\ Len(pagination.records) = 3
  /\ DedupInput[1].id = DedupInput[3].id

(***************************************************************************)
(* C15: for a remote that answers with the pages of the records dated      *)
(* inside the requested range, start <= end, no limit hit and no error:    *)
(* the records returned over [start,end] are the records of a single       *)
(* unsplit fetch over [start,end], and the sub-windows are contiguous,     *)
(* non-overlapping and cover exactly [start,end].                          *)
(***************************************************************************)
ChunkedFetchEqualsUnsplit ==
  (/\ FetchReturned
   /\ input.dateRange.start <= input.dateRange.end
   /\ ~pagination.hasError
   /\ ~StoppedByLimit
   /\ ~(MaxRecordsSet /\ Len(Accumulated) >= input.options.maxRecords)) =>
    /\ IdsOf(pagination.records) =
         IdsOf(inRange(remote, input.dateRange.start, input.dateRange.end))
    /\ DOMAIN fb # {}
    /\ fb.ranges[1].start = input.dateRange.start
    /\ fb.ranges[Len(fb.ranges)].end = input.dateRange.end
    /\ \A i \in 1..Len(fb.ranges) : fb.ranges[i].start <= fb.ranges[i].end
    /\ \A i \in 1..(Len(fb.ranges) - 1) : fb.ranges[i + 1].start = fb.ranges[i].end + 1

(***************************************************************************)
(* Vocabulary of the formatter properties                                  *)
(***************************************************************************)
FormatReturned == tool = "format" /\ pc = "done"

DirectFormat == FormatReturned /\ input.call = "formatOutput"

Control == controlOf(input.request)

\* the length formatOutput counts for the i-th record it was given
CountedLength(i) ==
  Len(countedText(formatRecord(input.records[i], Control), Control))

RECURSIVE SumCounted(_)
SumCounted(n) == IF n = 0 THEN 0 ELSE SumCounted(n - 1) + CountedLength(n)

\* the length of the JSON text of an emitted record
EmittedLength(i) ==
  Len(JSONstringify(outputMode(Control) = "id_only", output.records[i],
                    memberOrder(Control)))

\* the records of the request that satisfy its criteria
MatchingCount ==
  Cardinality({i \in 1..Len(input.records) :
                 ~Defined(input.request, "criteria")
                 \/ RefEval(input.records[i], input.request.criteria)})

(***************************************************************************)
(* C16: formatOutput with maxTotalChars: the counted lengths of the        *)
(* emitted records sum to at most maxTotalChars; the emitted records are   *)
(* the records before the first one whose inclusion would exceed the cap;  *)
(* then truncated=true and truncatedCount = input length - count;          *)
(* otherwise truncated=false, truncatedCount=0 and count = input length.   *)
(***************************************************************************)
TotalCharsCapRespected ==
  (DirectFormat /\ Defined(Control, "maxTotalChars")) =>
    LET n == output.count
        total == Len(input.records)
    IN /\ n = Len(output.records)
       /\ n <= total
       /\ \A i \in 1..n : output.records[i] = formatRecord(input.records[i], Control)
       /\ SumCounted(n) <= Control.maxTotalChars
       /\ IF n < total
          THEN /\ SumCounted(n + 1) > Control.maxTotalChars
               /\ output.truncated
               /\ output.truncatedCount = total - n
          ELSE /\ ~output.truncated
               /\ output.truncatedCount = 0

TotalCharsCapWitness ==
  /\ DirectFormat
  /\ Defined(Control, "maxTotalChars")
  /\ Len(input.records) = 3
  /\ output.count = 2
  /\ output.truncated
  /\ SumCounted(2) = Control.maxTotalChars

(***************************************************************************)
(* C17: formatOutput with maxCharsPerRecord = cap: the serialized text of  *)
(* every emitted record has at most cap characters.                        *)
(***************************************************************************)
EmittedRecordsWithinCap ==
  (FormatReturned /\ Defined(Control, "maxCharsPerRecord")) =>
    \A i \in 1..Len(output.records) : EmittedLength(i) <= Control.maxCharsPerRecord

(***************************************************************************)
(* C18: formatOutput given an output control with maxRecords = n emits at  *)
(* most n records, whatever the character caps are.                        *)
(***************************************************************************)
FormatOutputBoundedByMaxRecords ==
  (FormatReturned /\ Defined(Control, "maxRecords")) =>
    output.count <= Control.maxRecords

\* C18 as amended: searchAndSort followed by formatOutput emits at most
\* maxRecords records, whatever the character caps are: the sorted matches
\* are cut to maxRecords first and the character caps apply to the cut list;
\* formatOutput on its own emits at most the records it is given.
SearchOutputBoundedByMaxRecords ==
  FormatReturned =>
    IF input.call = "searchAndFormat"
    THEN /\ output.matchedCount =
              (IF Defined(Control, "maxRecords")
               THEN Min(Control.maxRecords, MatchingCount) ELSE MatchingCount)
         /\ output.count + output.truncatedCount = output.matchedCount
         /\ Defined(Control, "maxRecords") => output.count <= Control.maxRecords
    ELSE output.count <= Len(input.records)

SearchOutputBoundWitness ==
  /\ FormatReturned
  /\ input.call = "searchAndFormat"
  /\ Defined(Control, "maxRecords")
  /\ Defined(Control, "maxTotalChars")
  /\ MatchingCount = 3
  /\ output.matchedCount = 2
  /\ output.count = 1

(***************************************************************************)
(* Vocabulary of the search properties                                     *)
(***************************************************************************)
SearchReturned == tool = "search" /\ pc = "done"

SearchControl == controlOf(input)

\* the positions of the fetched records that satisfy the criteria
MatchPositions ==
  {i \in 1..Len(pagination.records) :
     ~Defined(input, "criteria") \/ RefEval(pagination.records[i], input.criteria)}

\* a comes strictly before b: later date first, then place ascending, then
\* name ascending
KeyBefore(a, b) ==
  \/ a.date > b.date
  \/ /\ a.date = b.date
     /\ localeCompare(orEmptyString(a, "place"), orEmptyString(b, "place")) < 0
  \/ /\ a.date = b.date
     /\ localeCompare(orEmptyString(a, "place"), orEmptyString(b, "place")) = 0
     /\ localeCompare(orEmptyString(a, "name"), orEmptyString(b, "name")) < 0

\* the matching records before position i in the response order; records
\* with equal date, place and name keep their fetch order
AheadOf(i) ==
  {j \in MatchPositions :
     \/ KeyBefore(pagination.records[j], pagination.records[i])
     \/ (~KeyBefore(pagination.records[i], pagination.records[j]) /\ j < i)}

\* the matching records in response order, cut to output.maxRecords
ExpectedRecords ==
  LET ordered == [k \in 1..Cardinality(MatchPositions) |->
                    pagination.records[CHOOSE i \in MatchPositions :
                                          Cardinality(AheadOf(i)) = k - 1]]
  IN IF Defined(SearchControl, "maxRecords")
     THEN SubSeq(ordered, 1, Min(SearchControl.maxRecords, Len(ordered)))
     ELSE ordered

\* a record as the response shows it under the requested mode
Shown(record) ==
  IF outputMode(SearchControl) = "id_only" THEN record.id
  ELSE IF picksFields(SearchControl)
       THEN [k \in {SearchControl.fields[i] : i \in 1..Len(SearchControl.fields)}
                     \cap DOMAIN record |-> record[k]]
       ELSE record

(***************************************************************************)
(* C19: when a page fetch fails during advancedSearchTool after some pages *)
(* were fetched, the response has success=false, the original error        *)
(* message, and the records gathered before the failure in its records.    *)
(***************************************************************************)
SearchKeepsRecordsOnFetchError ==
  (SearchReturned /\ PageFetchFailed /\ Len(ResolvedFetches) > 0) =>
    /\ ~output.success
    /\ thrown[1].error.isError => output.message.detail = thrown[1].error.message
    /\ \A i \in 1..Len(pagination.records) :
          \E j \in 1..Len(output.records) : output.records[j] = Shown(pagination.records[i])

GetsOf(range) ==
  SelectSeq(PageFetches,
            LAMBDA call : call.start_date = range.start /\ call.end_date = range.end)

FetchStarted == DOMAIN fb # {}

FetchOpts == PaginationOptionsParse(fb.options)

\* `const result = await fetchAllRecords(...)` has been assigned at least once
ResultDefined == FetchStarted /\ DOMAIN fb.result # {}

\* the sub-window whose fetchAllRecords call returned last
ReturnedRange ==
  fb.ranges[IF pc \in {"fetch_loop", "fetch_wait", "fetch_delay"} THEN fb.i - 1 ELSE fb.i]

\* the last returned fetchAllRecords call ended because a page was short
ReturnedAfterShortPage ==
  /\ ResultDefined
  /\ ~fb.result.hasError
  /\ LET gets == GetsOf(ReturnedRange)
     IN /\ Len(gets) > 0
        /\ Len(fetchFn(gets[Len(gets)])) < FetchOpts.pageSize

\* within every sub-window the k-th request asks for page startPage + k - 1
\* with limit pageSize, and only a full page is followed by another request
PagesConsecutive ==
  FetchStarted =>
    \A r \in 1..Len(fb.ranges) :
       LET gets == GetsOf(fb.ranges[r])
       IN \A k \in 1..Len(gets) :
             /\ gets[k].page = FetchOpts.startPage + k - 1
             /\ gets[k].limit = FetchOpts.pageSize
             /\ \A j \in 1..(k - 1) : gets[j].page < gets[k].page
             /\ k < Len(gets) => Len(fetchFn(gets[k])) = FetchOpts.pageSize

(***************************************************************************)
(* C21: within one sub-window fetchAllRecords requests pages in strictly   *)
(* increasing consecutive page numbers from startPage, each with limit =   *)
(* pageSize, never the same page twice, and issues no further request for  *)
(* the sub-window once a page returned fewer than pageSize records, in     *)
(* which case the hasMore of its result is false.                          *)
(***************************************************************************)
ShortPageEndsWindowWithoutMore ==
  /\ PagesConsecutive
  /\ ReturnedAfterShortPage => ~fb.result.hasMore

\* C21 as amended: after a short page hasMore is false unless the records
\* accumulated for the sub-window exceed maxRecords, in which case the list
\* is cut to maxRecords and hasMore is true.
ShortPageEndsWindowUnlessCut ==
  /\ PagesConsecutive
  /\ ReturnedAfterShortPage =>
       LET got == PagesOf(GetsOf(ReturnedRange))
           over == "maxRecords" \in DOMAIN FetchOpts /\ Len(got) > FetchOpts.maxRecords
       IN /\ fb.result.hasMore = over
          /\ fb.result.records = (IF over THEN SubSeq(got, 1, FetchOpts.maxRecords) ELSE got)

ShortPageWitness ==
  /\ tool = "fetch"
  /\ ReturnedAfterShortPage
  /\ Len(GetsOf(ReturnedRange)) >= 2
  /\ FetchOpts.startPage = 2
  /\ Len(fetchFn(GetsOf(ReturnedRange)[1])) = FetchOpts.pageSize
  /\ ~fb.result.hasMore

(***************************************************************************)
(* C22: with delayBetweenRequests > 0, a delay step occurs between any two *)
(* successive page-fetch calls of one fetchByDateRanges orchestration,     *)
(* including between the last page of one sub-window and the first page of *)
(* the next.                                                               *)
(***************************************************************************)
DelayBetweenPageFetches ==
  (FetchStarted /\ FetchOpts.delayBetweenRequests > 0) =>
    \A k \in 1..(Len(trace) - 1) :
       ~(trace[k].method = "GET" /\ trace[k + 1].method = "GET")

(***************************************************************************)
(* C23: in the non-dry-run APPLY loop of bulkUpdateTool and bulkDeleteTool *)
(* a fixed delay occurs between any two successive write calls, whether    *)
(* the earlier write succeeded or failed.                                  *)
(***************************************************************************)
DelayBetweenWrites ==
  \A k \in 1..(Len(trace) - 1) : ~(IsWrite(trace[k]) /\ IsWrite(trace[k + 1]))

(***************************************************************************)
(* C24: a numeric or date predicate whose required operand is absent never *)
(* passes: every numeric operator (notEquals included) with value absent,  *)
(* numeric between with min or max absent, every date operator with value  *)
(* absent and date between with startDate or endDate absent evaluate to    *)
(* false on every record.                                                  *)
(***************************************************************************)
\* the predicate lacks the operand its operator reads
OperandAbsent(c) ==
  /\ ~IsComposite(c)
  /\ \/ /\ c.field \in NumberFields
        /\ IF c.operator = "between"
           THEN "min" \notin DOMAIN c \/ "max" \notin DOMAIN c
           ELSE "value" \notin DOMAIN c
     \/ /\ c.field = "date"
        /\ IF c.operator = "between"
           THEN "startDate" \notin DOMAIN c \/ "endDate" \notin DOMAIN c
           ELSE "value" \notin DOMAIN c

AbsentOperandNeverPasses ==
  (ev.armed /\ ev.done /\ OperandAbsent(ev.criteria)) => ~ev.result

(***************************************************************************)
(* Vocabulary of the preview properties                                    *)
(***************************************************************************)
DryRunPreview == Returned /\ tool = "update" /\ output.message.kind = "dryRun"

UpdateStringFields == {"place", "name", "comment"}

RECURSIVE ReplacedAll(_, _, _)
\* text with every occurrence of a non-empty pattern, found left to right,
\* replaced by with
ReplacedAll(text, pattern, with) ==
  IF Len(text) < Len(pattern) THEN text
  ELSE IF SubSeq(text, 1, Len(pattern)) = pattern
       THEN with \o ReplacedAll(SubSeq(text, Len(pattern) + 1, Len(text)), pattern, with)
       ELSE <<text[1]>> \o ReplacedAll(Tail(text), pattern, with)

\* the new value the Update Spec gives a field of a record
NewValue(record, f) ==
  LET u == input.updates[f]
      current == IF HasValue(record, f) THEN record[f] ELSE <<>>
  IN IF f \notin UpdateStringFields THEN u
     ELSE IF u.mode = "replace"
          THEN (IF "newValue" \in DOMAIN u THEN u.newValue ELSE <<>>)
          ELSE IF "searchPattern" \in DOMAIN u
               THEN ReplacedAll(current, u.searchPattern,
                                IF "replaceWith" \in DOMAIN u THEN u.replaceWith ELSE <<>>)
               ELSE current

\* the after map of entry i of the preview is the one the claim describes
AfterIsNewValue(i) ==
  LET record == targetRecords[i]
      after == output.results[i].after
  IN /\ DOMAIN after = DOMAIN input.updates
     /\ \A f \in DOMAIN input.updates : after[f] = NewValue(record, f)

\* the before map of entry i holds the record's value of each field of F
BeforeIsCurrentValue(i, F) ==
  LET record == targetRecords[i]
      before == output.results[i].before
  IN /\ DOMAIN before \subseteq DOMAIN input.updates
     /\ \A f \in F : IF HasValue(record, f)
                      THEN f \in DOMAIN before /\ before[f] = record[f]
                      ELSE f \notin DOMAIN before

(***************************************************************************)
(* C25: for every target record and every field of the Update Spec, the    *)
(* bulk-update preview reports before = the record's current value of the  *)
(* field and after = the new value (the literal for numeric and date       *)
(* fields, newValue in replace mode, the current text with every           *)
(* occurrence of searchPattern replaced by replaceWith in partial mode);   *)
(* fields outside the Update Spec appear in neither map.                   *)
(***************************************************************************)
PreviewBeforeAndAfter ==
  DryRunPreview =>
    \A i \in 1..Len(output.results) :
       /\ output.results[i].id = targetRecords[i].id
       /\ AfterIsNewValue(i)
       /\ BeforeIsCurrentValue(i, DOMAIN input.updates)

(***************************************************************************)
(* C26: bulkDeleteTool never deletes unconditionally: for every criteria   *)
(* tree that passes the empty-criteria check and every fetched record for  *)
(* which every single predicate of the tree evaluates to false, the record *)
(* is not a target and no delete call is issued for it.                    *)
(***************************************************************************)
RECURSIVE PredicatesOf(_)
\* the single predicates occurring in a criteria tree
PredicatesOf(c) ==
  IF IsComposite(c)
  THEN UNION {PredicatesOf(c.conditions[i]) : i \in 1..Len(c.conditions)}
  ELSE {c}

\* no predicate of the request's criteria holds on the record
NoPredicateHolds(record) ==
  \A p \in PredicatesOf(input.criteria) : ~evaluateCondition(record, p)

NoDeleteWithoutMatchingPredicate ==
  (tool = "delete" /\ ~isEmptyCriteria(input.criteria)) =>
    /\ \A i \in 1..Len(targetRecords) : ~NoPredicateHolds(targetRecords[i])
    /\ \A k \in 1..Len(trace) :
          trace[k].method = "DELETE" =>
            \A i \in 1..Len(remote) :
               remote[i].id = trace[k].id => ~NoPredicateHolds(remote[i])

(***************************************************************************)
(* C27: in every successful advancedSearchTool response meta.matchedCount  *)
(* is the number of fetched records that satisfy the criteria (counted     *)
(* after filtering, before any output limit), meta.outputCount = count =   *)
(* the number of records in the response, and outputCount <= matchedCount  *)
(* <= totalFetched, whatever output.maxRecords is.                         *)
(***************************************************************************)
SearchCountsConsistent ==
  (SearchReturned /\ output.success) =>
    /\ output.meta.matchedCount = Cardinality(MatchPositions)
    /\ output.meta.outputCount = output.count
    /\ output.count = Len(output.records)
    /\ output.meta.totalFetched = Len(pagination.records)
    /\ output.meta.outputCount <= output.meta.matchedCount
    /\ output.meta.matchedCount <= output.meta.totalFetched

(***************************************************************************)
(* C28: the pagesRetrieved reported by fetchAllRecords equals the number   *)
(* of page-fetch calls it issued, on every exit path (short page,          *)
(* maxPages limit, maxRecords limit, fetch error), and the pagesRetrieved  *)
(* of fetchByDateRanges equals the total number of page-fetch calls issued *)
(* over all sub-windows.                                                   *)
(***************************************************************************)
PagesRetrievedCountsCalls ==
  /\ ResultDefined => fb.result.pagesRetrieved = Len(GetsOf(ReturnedRange))
  /\ FetchReturned => pagination.pagesRetrieved = Len(PageFetches)

(***************************************************************************)
(* C29: bulkUpdateTool: for every target record of every kind (payment,    *)
(* income, transfer) and every field of the record's after map, the PUT    *)
(* payload built for the record carries that new value for the             *)
(* corresponding field, so the preview never reports a change the apply    *)
(* would not send (in particular for an account_id update).                *)
(***************************************************************************)
\* the payload fields that can carry the new value of an after field: an
\* account_id goes to the account the kind of record uses
PayloadFields(f) ==
  IF f = "account_id" THEN {"from_account_id", "to_account_id"} ELSE {f}

PayloadCarriesAfter ==
  tool = "update" =>
    \A k \in 1..Len(trace) :
       trace[k].method = "PUT" =>
         \A i \in 1..Len(targetRecords) :
            targetRecords[i].id = trace[k].id =>
              LET after == calculateUpdateBody(targetRecords[i], input.updates).after
              IN \A f \in DOMAIN after :
                    \E g \in PayloadFields(f) :
                       /\ g \in DOMAIN trace[k].body
                       /\ trace[k].body[g] = after[f]

(***************************************************************************)
(* C30: the fetch orchestration always terminates: even for a fetcher that *)
(* returns a full page on every call, fetchAllRecords issues at most       *)
(* maxPages calls per sub-window and then returns, and fetchByDateRanges   *)
(* issues at most maxPages times the number of sub-windows calls.          *)
(***************************************************************************)
CallsWithinMaxPages ==
  FetchStarted =>
    /\ \A r \in 1..Len(fb.ranges) : Len(GetsOf(fb.ranges[r])) <= FetchOpts.maxPages
    /\ Len(PageFetches) <= FetchOpts.maxPages * Len(fb.ranges)

FetchTerminatesWithinMaxPages ==
  /\ []CallsWithinMaxPages
  /\ <>(pc = "fetched")

FetchTerminatesWitness ==
  /\ FetchReturned
  /\ "fetcher" \in DOMAIN input
  /\ FetchStarted
  /\ Len(fb.ranges) = 2
  /\ Len(PageFetches) = FetchOpts.maxPages * Len(fb.ranges)
  /\ FetchOpts.maxPages > 1
  /\ ~pagination.hasError
====
